---- MODULE Spec2Model ----
(***************************************************************************)
(* Orchestration logic of the temporal-ecommerce workflows.                *)
(*                                                                         *)
(* Every workflow execution is one record variable whose fields carry the  *)
(* names of the locals of the workflow function.  An action is one         *)
(* workflow activation: the resolution of the await the execution is       *)
(* parked on, followed by all the synchronous code up to the next await    *)
(* that really suspends.  The substrate (Temporal) contributes: activity   *)
(* retries up to maximumAttempts, timers, signal delivery, and             *)
(* cancellation of the execution (every await of a cancelled, cancellable  *)
(* scope rejects with CancelledFailure, at once when it is issued after    *)
(* the request).                                                           *)
(***************************************************************************)
EXTENDS Integers, Sequences, FiniteSets, TLC

VARIABLES order, training, analysis, instances, multi, adaptive, gateway, inventory

vars == <<order, training, analysis, instances, multi, adaptive, gateway, inventory>>

\* what the activations of one workflow leave alone
OrderOnly == <<training, analysis, instances, multi, adaptive, gateway, inventory>>
TrainingOnly == <<order, analysis, instances, multi, adaptive, gateway, inventory>>
AnalysisOnly == <<order, training, instances, multi, adaptive, gateway, inventory>>
RngOnly == <<order, training, analysis, multi, adaptive, gateway, inventory>>
MultiOnly == <<order, training, analysis, instances, adaptive, gateway, inventory>>
AdaptiveOnly == <<order, training, analysis, instances, multi, gateway, inventory>>
GatewayOnly == <<order, training, analysis, instances, multi, adaptive, inventory>>
InventoryOnly == <<order, training, analysis, instances, multi, adaptive, gateway>>

(***************************************************************************)
(* Program constants.                                                      *)
(***************************************************************************)
ApprovalThreshold == 5000
ApprovalTimeoutHours == 24
MaximumAttempts == 5
NotificationMaximumAttempts == 3

Undefined == "undefined"

Amounts == {100, ApprovalThreshold, 10000}

(***************************************************************************)
(* Values of errors: <<kind, detail>>.                                     *)
(***************************************************************************)
ActivityFailure(act) == <<"ActivityFailure", act>>
CancelledFailure == <<"CancelledFailure", "Cancelled">>
OrderCancelledError == <<"Error", "Order cancelled by customer">>
OrderRejectedError(reason) == <<"Error: Order rejected", reason>>
NoError == <<Undefined, Undefined>>

(***************************************************************************)
(* ApprovalDecision (types.ts); defined = FALSE is the undefined slot.     *)
(***************************************************************************)
NoDecision ==
    [defined |-> FALSE, approved |-> FALSE, approvedBy |-> Undefined, reason |-> Undefined]

ApprovalDecisions ==
    {d \in [defined : {TRUE}, approved : BOOLEAN, approvedBy : {"admin"},
            reason : {Undefined, "fraud"}] : d.approved => d.reason = Undefined}

(***************************************************************************)
(* orderWorkflow: the state after the synchronous prefix of the function,  *)
(* parked on the first await (reserveInventory).                           *)
(***************************************************************************)
OrderState(amount) ==
    [totalAmount |-> amount,
     status |-> "pending",
     inventoryReserved |-> FALSE,
     paymentProcessed |-> FALSE,
     shipmentCreated |-> FALSE,
     reservationId |-> Undefined,
     paymentId |-> Undefined,
     shipmentId |-> Undefined,
     trackingNumber |-> Undefined,
     approvedBy |-> Undefined,
     rejectedReason |-> Undefined]

OrderStart(amount) ==
    [orderInput |-> [totalAmount |-> amount],
     state |-> OrderState(amount),
     reservationId |-> Undefined,
     paymentId |-> Undefined,
     shipmentId |-> Undefined,
     isCancelled |-> FALSE,
     approvalDecision |-> NoDecision,
     pc |-> "reserveInventory",
     attempt |-> 1,
     error |-> NoError,
     thrown |-> NoError,
     cancelRequested |-> FALSE,
     calls |-> <<"reserveInventory">>,
     succeeded |-> <<>>,
     errlog |-> <<>>,
     gate |-> "none",
     timer |-> 0,
     isCancelledAt |-> "never",
     approvalDecisionAt |-> "never",
     cancelRequestedAt |-> "never"]

OrderIdle == [pc |-> "idle", error |-> NoError]

(***************************************************************************)
(* Issue an activity call and suspend on it.                               *)
(***************************************************************************)
Park(s, p, act) == [s EXCEPT !.pc = p, !.attempt = 1, !.calls = Append(@, act)]

(***************************************************************************)
(* CancellationScope: a scope is considered cancelled when cancellation    *)
(* of the execution was requested and the scope is cancellable.  The root  *)
(* scope is cancellable; the scope of the compensations is created with    *)
(* CancellationScope.nonCancellable.                                       *)
(***************************************************************************)
CompensationScopeCancellable_Root == TRUE

CompensationScopeCancellable == FALSE

RootCancelled(s) == s.cancelRequested

CompensationCancelled(s) == s.cancelRequested /\ CompensationScopeCancellable

(***************************************************************************)
(* catch block of orderWorkflow, last statement first.  A compensation     *)
(* that fails is logged and the next one runs.                             *)
(***************************************************************************)
Throw(s) == [s EXCEPT !.pc = "thrown", !.thrown = s.error]

AfterCompensation(s) ==
    LET t == [s EXCEPT !.state.status = "failed"]
    IN  IF RootCancelled(t) THEN Throw(t)
        ELSE Park(t, "notifyFailed", "sendNotification")

InventoryReleased_Reset(s) ==
    AfterCompensation([s EXCEPT !.state.inventoryReserved = FALSE,
                                !.state.reservationId = Undefined])

InventoryReleased(s) == AfterCompensation(s)

ReleaseInventoryFailed(s) ==
    AfterCompensation([s EXCEPT !.errlog = Append(@, "Failed to release inventory:")])

CompensateInventory(s) ==
    IF s.reservationId # Undefined
    THEN IF CompensationCancelled(s) THEN ReleaseInventoryFailed(s)
         ELSE Park(s, "releaseInventory", "releaseInventory")
    ELSE AfterCompensation(s)

PaymentRefunded(s) == CompensateInventory(s)

RefundPaymentFailed_Rethrown(s) ==
    Throw([s EXCEPT !.error = ActivityFailure("refundPayment")])

RefundPaymentFailed(s) ==
    CompensateInventory([s EXCEPT !.errlog = Append(@, "Failed to refund payment:")])

CompensatePayment_Skipped(s) == CompensateInventory(s)

CompensatePayment(s) ==
    IF s.paymentId # Undefined
    THEN IF CompensationCancelled(s) THEN RefundPaymentFailed(s)
         ELSE Park(s, "refundPayment", "refundPayment")
    ELSE CompensateInventory(s)

ShipmentCancelled(s) == CompensatePayment(s)

CancelShipmentFailed(s) ==
    CompensatePayment([s EXCEPT !.errlog = Append(@, "Failed to cancel shipment:")])

CompensateShipment(s) ==
    IF s.shipmentId # Undefined
    THEN IF CompensationCancelled(s) THEN CancelShipmentFailed(s)
         ELSE Park(s, "cancelShipment", "cancelShipment")
    ELSE CompensatePayment(s)

Catch(s, e) ==
    CompensateShipment([s EXCEPT !.error = e, !.state.status = "compensating"])

(***************************************************************************)
(* try block of orderWorkflow, last statement first.                       *)
(***************************************************************************)
Return(s) == [s EXCEPT !.pc = "returned"]

Complete(s) ==
    LET t == [s EXCEPT !.state.status = "completed"]
    IN  IF RootCancelled(t) THEN Return(t)
        ELSE Park(t, "notifyCompleted", "sendNotification")

AutoComplete(s) ==
    IF RootCancelled(s) THEN Catch(s, CancelledFailure)
    ELSE [s EXCEPT !.pc = "sleep7d"]

ShipmentCreated(s, shipment) ==
    LET t == [s EXCEPT !.shipmentId = shipment.shipmentId,
                       !.state.shipmentCreated = TRUE,
                       !.state.shipmentId = shipment.shipmentId,
                       !.state.trackingNumber = shipment.trackingNumber,
                       !.state.status = "shipped",
                       !.succeeded = Append(@, "createShipment")]
    IN  IF RootCancelled(t) THEN AutoComplete(t)
        ELSE Park(t, "notifyShipped", "sendNotification")

CreateShipmentStep_NoCheck(s) ==
    LET t == [s EXCEPT !.state.status = "shipment_created"]
    IN  IF RootCancelled(t) THEN Catch(t, CancelledFailure)
        ELSE Park(t, "createShipment", "createShipment")

CreateShipmentStep(s) ==
    IF s.isCancelled THEN Catch(s, OrderCancelledError)
    ELSE LET t == [s EXCEPT !.state.status = "shipment_created"]
         IN  IF RootCancelled(t) THEN Catch(t, CancelledFailure)
             ELSE Park(t, "createShipment", "createShipment")

ApprovalRejected_TimeoutPasses(s, approved) ==
    approved /\ ~(s.approvalDecision.defined /\ s.approvalDecision.approved)

ApprovalRejected_AnyDecisionPasses(s, approved) == ~approved

ApprovalRejected(s, approved) ==
    ~approved \/ ~(s.approvalDecision.defined /\ s.approvalDecision.approved)

GateOutcome(s, approved) ==
    IF ~approved THEN "timeout"
    ELSE IF s.approvalDecision.approved THEN "approved" ELSE "rejected"

ApprovalResolved(s, approved) ==
    LET g == [s EXCEPT !.gate = GateOutcome(s, approved), !.timer = 0]
    IN  IF ApprovalRejected(s, approved)
        THEN LET reason == IF s.approvalDecision.defined /\ s.approvalDecision.reason # Undefined
                           THEN s.approvalDecision.reason
                           ELSE "Approval timeout"
             IN  Catch([g EXCEPT !.state.status = "rejected",
                                 !.state.rejectedReason = reason],
                       OrderRejectedError(reason))
        ELSE CreateShipmentStep([g EXCEPT !.state.approvedBy = s.approvalDecision.approvedBy,
                                          !.state.status = "approved"])

\* condition(() => approvalDecision !== undefined, '24h')
AwaitApproval_AlwaysSuspends(s) ==
    IF RootCancelled(s) THEN Catch(s, CancelledFailure)
    ELSE [s EXCEPT !.pc = "awaitApproval", !.timer = 0]

AwaitApproval(s) ==
    IF RootCancelled(s) THEN Catch(s, CancelledFailure)
    ELSE IF s.approvalDecision.defined THEN ApprovalResolved(s, TRUE)
    ELSE [s EXCEPT !.pc = "awaitApproval", !.timer = 0]

RequiresApproval_Inclusive(s) == s.orderInput.totalAmount >= ApprovalThreshold

RequiresApproval(s) == s.orderInput.totalAmount > ApprovalThreshold

\* the approval step without the cancellation check that precedes it
ApprovalStep_NoCheck(s) ==
    IF RequiresApproval(s)
    THEN LET t == [s EXCEPT !.state.status = "awaiting_approval"]
         IN  IF RootCancelled(t) THEN AwaitApproval(t)
             ELSE Park(t, "notifyAdmin", "sendNotification")
    ELSE CreateShipmentStep(s)

ApprovalStep(s) ==
    IF s.isCancelled THEN Catch(s, OrderCancelledError)
    ELSE IF RequiresApproval(s)
    THEN LET t == [s EXCEPT !.state.status = "awaiting_approval"]
         IN  IF RootCancelled(t) THEN AwaitApproval(t)
             ELSE Park(t, "notifyAdmin", "sendNotification")
    ELSE CreateShipmentStep(s)

PaymentProcessed(s, payment) ==
    LET t == [s EXCEPT !.paymentId = payment.paymentId,
                       !.state.paymentProcessed = TRUE,
                       !.state.paymentId = payment.paymentId,
                       !.state.status = "payment_completed",
                       !.succeeded = Append(@, "processPayment")]
    IN  IF RootCancelled(t) THEN ApprovalStep(t)
        ELSE Park(t, "notifyPaid", "sendNotification")

ProcessPaymentStep(s) ==
    IF s.isCancelled THEN Catch(s, OrderCancelledError)
    ELSE LET t == [s EXCEPT !.state.status = "payment_processing"]
         IN  IF RootCancelled(t) THEN Catch(t, CancelledFailure)
             ELSE Park(t, "processPayment", "processPayment")

InventoryReserved(s, reservation) ==
    LET t == [s EXCEPT !.reservationId = reservation.reservationId,
                       !.state.inventoryReserved = TRUE,
                       !.state.reservationId = reservation.reservationId,
                       !.state.status = "inventory_reserved",
                       !.succeeded = Append(@, "reserveInventory")]
    IN  IF RootCancelled(t) THEN ProcessPaymentStep(t)
        ELSE Park(t, "notifyReserved", "sendNotification")

(***************************************************************************)
(* Results of the forward activities (ids are uuidv4 strings, never        *)
(* empty).                                                                 *)
(***************************************************************************)
Reservations == [reservationId : {"res-1"}]
Payments == [paymentId : {"pay-1"}]
Shipments == [shipmentId : {"shp-1"}, trackingNumber : {"FED0001"}]

ForwardActivities == {"reserveInventory", "processPayment", "createShipment"}
CompensatingActivities == {"cancelShipment", "refundPayment", "releaseInventory"}
Notifications ==
    {"notifyReserved", "notifyPaid", "notifyAdmin", "notifyShipped", "notifyCompleted",
     "notifyFailed"}
OrderTerminal == {"returned", "thrown"}

OrderRunning == order.pc \notin (OrderTerminal \cup {"idle"})

(***************************************************************************)
(* Activations of orderWorkflow.                                           *)
(***************************************************************************)
ReserveInventoryOk ==
    /\ order.pc = "reserveInventory"
    /\ \E reservation \in Reservations : order' = InventoryReserved(order, reservation)
    /\ UNCHANGED OrderOnly

ReserveInventoryFails ==
    /\ order.pc = "reserveInventory"
    /\ order.attempt = MaximumAttempts
    /\ order' = Catch(order, ActivityFailure("reserveInventory"))
    /\ UNCHANGED OrderOnly

NotifyReservedSettled ==
    /\ order.pc = "notifyReserved"
    /\ order' = ProcessPaymentStep(order)
    /\ UNCHANGED OrderOnly

ProcessPaymentOk ==
    /\ order.pc = "processPayment"
    /\ \E payment \in Payments : order' = PaymentProcessed(order, payment)
    /\ UNCHANGED OrderOnly

ProcessPaymentFails ==
    /\ order.pc = "processPayment"
    /\ order.attempt = MaximumAttempts
    /\ order' = Catch(order, ActivityFailure("processPayment"))
    /\ UNCHANGED OrderOnly

NotifyPaidSettled ==
    /\ order.pc = "notifyPaid"
    /\ order' = ApprovalStep(order)
    /\ UNCHANGED OrderOnly

NotifyAdminSettled ==
    /\ order.pc = "notifyAdmin"
    /\ order' = AwaitApproval(order)
    /\ UNCHANGED OrderOnly

ApprovalObserved ==
    /\ order.pc = "awaitApproval"
    /\ order.approvalDecision.defined
    /\ order' = ApprovalResolved(order, TRUE)
    /\ UNCHANGED OrderOnly

\* one more hour of the 24h timer, the decision slot still unset
ApprovalHourPasses ==
    /\ order.pc = "awaitApproval"
    /\ ~order.approvalDecision.defined
    /\ order.timer < ApprovalTimeoutHours
    /\ order' = [order EXCEPT !.timer = @ + 1]
    /\ UNCHANGED OrderOnly

ApprovalTimeout_Early ==
    /\ order.pc = "awaitApproval"
    /\ ~order.approvalDecision.defined
    /\ order' = ApprovalResolved(order, FALSE)
    /\ UNCHANGED OrderOnly

ApprovalTimeout ==
    /\ order.pc = "awaitApproval"
    /\ ~order.approvalDecision.defined
    /\ order.timer = ApprovalTimeoutHours
    /\ order' = ApprovalResolved(order, FALSE)
    /\ UNCHANGED OrderOnly

CreateShipmentOk ==
    /\ order.pc = "createShipment"
    /\ \E shipment \in Shipments : order' = ShipmentCreated(order, shipment)
    /\ UNCHANGED OrderOnly

CreateShipmentFails ==
    /\ order.pc = "createShipment"
    /\ order.attempt = MaximumAttempts
    /\ order' = Catch(order, ActivityFailure("createShipment"))
    /\ UNCHANGED OrderOnly

NotifyShippedSettled ==
    /\ order.pc = "notifyShipped"
    /\ order' = AutoComplete(order)
    /\ UNCHANGED OrderOnly

SleepElapsed ==
    /\ order.pc = "sleep7d"
    /\ order' = Complete(order)
    /\ UNCHANGED OrderOnly

NotifyCompletedSettled ==
    /\ order.pc = "notifyCompleted"
    /\ order' = Return(order)
    /\ UNCHANGED OrderOnly

CancelShipmentOk ==
    /\ order.pc = "cancelShipment"
    /\ order' = ShipmentCancelled(order)
    /\ UNCHANGED OrderOnly

CancelShipmentFails ==
    /\ order.pc = "cancelShipment"
    /\ order.attempt = MaximumAttempts \/ CompensationCancelled(order)
    /\ order' = CancelShipmentFailed(order)
    /\ UNCHANGED OrderOnly

RefundPaymentOk ==
    /\ order.pc = "refundPayment"
    /\ order' = PaymentRefunded(order)
    /\ UNCHANGED OrderOnly

RefundPaymentFails ==
    /\ order.pc = "refundPayment"
    /\ order.attempt = MaximumAttempts \/ CompensationCancelled(order)
    /\ order' = RefundPaymentFailed(order)
    /\ UNCHANGED OrderOnly

ReleaseInventoryOk ==
    /\ order.pc = "releaseInventory"
    /\ order' = InventoryReleased(order)
    /\ UNCHANGED OrderOnly

ReleaseInventoryFails ==
    /\ order.pc = "releaseInventory"
    /\ order.attempt = MaximumAttempts \/ CompensationCancelled(order)
    /\ order' = ReleaseInventoryFailed(order)
    /\ UNCHANGED OrderOnly

NotifyFailedSettled ==
    /\ order.pc = "notifyFailed"
    /\ order' = Throw(order)
    /\ UNCHANGED OrderOnly

(***************************************************************************)
(* Substrate: a failed attempt is retried until maximumAttempts.           *)
(***************************************************************************)
OrderActivityRetry ==
    /\ order.pc \in ForwardActivities \cup CompensatingActivities
    /\ order.attempt < MaximumAttempts
    /\ order' = [order EXCEPT !.attempt = @ + 1]
    /\ UNCHANGED OrderOnly

OrderNotificationRetry ==
    /\ order.pc \in Notifications
    /\ order.attempt < NotificationMaximumAttempts
    /\ order' = [order EXCEPT !.attempt = @ + 1]
    /\ UNCHANGED OrderOnly

(***************************************************************************)
(* Substrate: a forward activity pending in the cancelled root scope       *)
(* rejects with CancelledFailure.                                          *)
(***************************************************************************)
OrderActivityCancelled ==
    /\ order.pc \in ForwardActivities
    /\ RootCancelled(order)
    /\ order' = Catch(order, CancelledFailure)
    /\ UNCHANGED OrderOnly

(***************************************************************************)
(* Signals and cancellation of the execution.                              *)
(***************************************************************************)
ApproveOrderSignal ==
    /\ OrderRunning
    /\ \E decision \in ApprovalDecisions :
         order' = [order EXCEPT !.approvalDecision = decision,
                                !.approvalDecisionAt = order.pc]
    /\ UNCHANGED OrderOnly

CancelOrderSignal ==
    /\ OrderRunning
    /\ order' = [order EXCEPT !.isCancelled = TRUE,
                             !.isCancelledAt = IF order.isCancelled THEN @ ELSE order.pc]
    /\ UNCHANGED OrderOnly

OrderCancelExecution ==
    /\ OrderRunning
    /\ ~order.cancelRequested
    /\ LET s == [order EXCEPT !.cancelRequested = TRUE, !.cancelRequestedAt = order.pc]
       IN  order' = IF s.pc \in {"awaitApproval", "sleep7d"}
                    THEN Catch([s EXCEPT !.timer = 0], CancelledFailure)
                    ELSE s
    /\ UNCHANGED OrderOnly

(***************************************************************************)
(* mlTrainingWorkflow.                                                     *)
(*                                                                         *)
(* Losses stand for the floating-point losses returned by trainEpoch;      *)
(* Infinity is larger than every loss.                                     *)
(***************************************************************************)
MaxEpochs == 20

ReviewInterval == 10
ReviewTimeoutHours == 2
TrainingMaximumAttempts == 3
Infinity == 1000000000

Losses == {1, 2}
ResumeLosses == {2}
EpochChoices == {0, 4, 11, MaxEpochs}
CheckpointIntervals == {3, 5, 10}
Seeds == {42}
ResumeEpochs == {0, 3, 5, 10, MaxEpochs + 1}

NoCheckpoint == [defined |-> FALSE, epoch |-> 0, loss |-> 0]

CheckpointInfo(epoch, loss) == [defined |-> TRUE, epoch |-> epoch, loss |-> loss]

\* the long runs checkpoint every 10 epochs, the others every 3 or 5
TrainingConfigs ==
    {c \in [epochs : EpochChoices, checkpointInterval : CheckpointIntervals, randomSeed : Seeds] :
        (c.epochs > 11) <=> (c.checkpointInterval = 10)}

NoResearcherDecision == [defined |-> FALSE, action |-> Undefined]

ResearcherDecisions == [defined : {TRUE}, action : {"continue", "adjust", "stop"}]

TrainingError == <<"Error", "Training cancelled by researcher">>

(***************************************************************************)
(* SeededRNG: state = seed % 2147483647 (made positive); next() is the     *)
(* Lehmer step state * 48271 % 2147483647, computed without exceeding 32   *)
(* bits (Schrage: m = a * q + r).                                          *)
(***************************************************************************)
RngModulus == 2147483647
RngMultiplier == 48271

\* the remainder of JavaScript's % takes the sign of the dividend
JsRemainder(a, m) == IF a < 0 THEN 0 - ((0 - a) % m) ELSE a % m

SeededRNG(seed) ==
    LET st == JsRemainder(seed, RngModulus)
    IN  IF st <= 0 THEN st + 2147483646 ELSE st

RngNext(st) ==
    LET q == RngModulus \div RngMultiplier
        r == RngModulus % RngMultiplier
        t == RngMultiplier * (st % q) - r * (st \div q)
    IN  IF t < 0 THEN t + RngModulus ELSE t

(***************************************************************************)
(* floor(x * n / m) for 0 <= x < m, by binary long multiplication that     *)
(* keeps every intermediate value below 2^31; bits is the number of        *)
(* binary digits of n still to process, most significant first.  The      *)
(* pair <<quo, rem>> is bound by a quantifier at each digit so that it is  *)
(* computed once per digit.                                                *)
(***************************************************************************)
RECURSIVE MulDivFloor(_, _, _, _, _, _)
MulDivFloor(x, n, m, bits, quo, rem) ==
    IF bits = 0 THEN quo
    ELSE LET Digit(q, r) ==
                 LET bit == (n \div (2 ^ (bits - 1))) % 2
                     dq == IF r >= m - r THEN 2 * q + 1 ELSE 2 * q
                     dr == IF r >= m - r THEN r - (m - r) ELSE 2 * r
                     aq == IF bit = 1 /\ dr >= m - x THEN dq + 1 ELSE dq
                     ar == IF bit = 0 THEN dr
                           ELSE IF dr >= m - x THEN dr - (m - x) ELSE dr + x
                 IN  MulDivFloor(x, n, m, bits - 1, aq, ar)
         IN  CHOOSE v \in {Digit(s[1], s[2]) : s \in {<<quo, rem>>}} : TRUE

\* nextInt(min, max) on the state reached by next()
RngInt(st, min, max) ==
    MulDivFloor(st - 1, max - min + 1, 2147483646, 20, 0, 0) + min

ShuffleSeedMax == 1000000

(***************************************************************************)
(* SeededRNG objects on their own: each instance has a private `state`     *)
(* field; `out` is the history of the values its calls returned.  next()   *)
(* returns (state - 1) / 2147483646, recorded as its numerator.            *)
(***************************************************************************)
MaxDraws == 3

RngSeeds == {-5, 0, 1, 42, 2147483647}
RngInstances == {1, 2}
RngCalls == {"next", "nextInt"}

NoInstances == <<>>

NewInstance(seed) == [seed |-> seed, state |-> SeededRNG(seed), out |-> <<>>]

RngReturn(call, st) ==
    IF call = "next" THEN <<call, st - 1>> ELSE <<call, RngInt(st, 0, ShuffleSeedMax)>>

\* one call on instance i: only that instance's state advances
RngCall_SharedState(insts, i, call) ==
    LET st == RngNext(insts[i].state)
    IN  [j \in DOMAIN insts |->
            IF j = i THEN [insts[j] EXCEPT !.state = st, !.out = Append(@, RngReturn(call, st))]
            ELSE [insts[j] EXCEPT !.state = st]]

RngCall(insts, i, call) ==
    LET st == RngNext(insts[i].state)
    IN  [insts EXCEPT ![i].state = st, ![i].out = Append(@, RngReturn(call, st))]

RngNextCalled ==
    /\ instances # NoInstances
    /\ \E i \in RngInstances :
         /\ Len(instances[i].out) < MaxDraws
         /\ instances' = RngCall(instances, i, "next")
    /\ UNCHANGED RngOnly

RngNextIntCalled ==
    /\ instances # NoInstances
    /\ \E i \in RngInstances :
         /\ Len(instances[i].out) < MaxDraws
         /\ instances' = RngCall(instances, i, "nextInt")
    /\ UNCHANGED RngOnly

(***************************************************************************)
(* State of a training execution parked on initializeTraining.             *)
(***************************************************************************)
TrainingState(config, resume) ==
    [status |-> "initializing",
     currentEpoch |-> IF resume.defined /\ resume.epoch # 0 THEN resume.epoch ELSE 0,
     totalEpochs |-> config.epochs,
     currentLoss |-> IF resume.defined /\ resume.loss # 0 THEN resume.loss ELSE Infinity,
     bestLoss |-> IF resume.defined /\ resume.loss # 0 THEN resume.loss ELSE Infinity,
     checkpoints |-> IF resume.defined THEN <<resume>> ELSE <<>>,
     randomSeed |-> config.randomSeed]

TrainingCall(name, epoch, shuffleSeed) ==
    [name |-> name, epoch |-> epoch, shuffleSeed |-> shuffleSeed]

NoResult == [defined |-> FALSE, finalLoss |-> 0, totalEpochs |-> 0, checkpoints |-> <<>>]

TrainingStart(config, resume) ==
    [config |-> config,
     resumeFromCheckpoint |-> resume,
     seed |-> config.randomSeed,
     rng |-> SeededRNG(config.randomSeed),
     state |-> TrainingState(config, resume),
     cancelled |-> FALSE,
     researcherDecision |-> NoResearcherDecision,
     epoch |-> 0,
     pc |-> "initializeTraining",
     attempt |-> 1,
     error |-> NoError,
     thrown |-> NoError,
     result |-> NoResult,
     cancelRequested |-> FALSE,
     calls |-> <<TrainingCall("initializeTraining", 0, 0)>>,
     errlog |-> <<>>,
     gate |-> "none",
     timer |-> 0,
     consumed |-> FALSE,
     reobserved |-> FALSE]

TrainingIdle == [pc |-> "idle", consumed |-> FALSE, reobserved |-> FALSE]

TPark(s, p, call) == [s EXCEPT !.pc = p, !.attempt = 1, !.calls = Append(@, call)]

(***************************************************************************)
(* catch block: status 'failed', cleanup in a nonCancellable scope (its    *)
(* failure is logged), then the error is re-thrown.                        *)
(***************************************************************************)
TrainingThrow(s) == [s EXCEPT !.pc = "thrown", !.thrown = s.error]

CleanupFailed_Rethrown(s) ==
    [s EXCEPT !.pc = "thrown", !.thrown = ActivityFailure("cleanupTraining")]

CleanupFailed(s) ==
    TrainingThrow([s EXCEPT !.errlog = Append(@, "Failed to cleanup training:")])

TrainingCatch(s, e) ==
    TPark([s EXCEPT !.error = e, !.state.status = "failed"],
          "cleanupTraining", TrainingCall("cleanupTraining", 0, 0))

(***************************************************************************)
(* try block, last statement first.                                        *)
(***************************************************************************)
TrainingReturn(s) ==
    [s EXCEPT !.state.status = "completed",
              !.pc = "returned",
              !.result = [defined |-> TRUE,
                          finalLoss |-> s.state.currentLoss,
                          totalEpochs |-> s.state.currentEpoch + 1,
                          checkpoints |-> s.state.checkpoints]]

FinalEvaluation(s) ==
    LET t == [s EXCEPT !.state.status = "evaluating"]
    IN  IF RootCancelled(t) THEN TrainingCatch(t, CancelledFailure)
        ELSE TPark(t, "evaluateModel", TrainingCall("evaluateModel", 0, 0))

InterEpochDelay(s) ==
    IF RootCancelled(s) THEN TrainingCatch(s, CancelledFailure)
    ELSE [s EXCEPT !.pc = "sleep100ms"]

\* researcherDecision = undefined
ClearResearcherDecision_Kept(s) == s

ClearResearcherDecision(s) ==
    [s EXCEPT !.researcherDecision = NoResearcherDecision, !.consumed = FALSE]

\* researcherDecision.action === 'stop'
StopRequested_Never(s) == FALSE

StopRequested(s) == s.researcherDecision.action = "stop"

\* gate, consumed and reobserved record how the review gates were resolved
\* the review gate with a timeout that ends the training loop
ReviewResolved_TimeoutStops(s, hasDecision) ==
    FinalEvaluation([s EXCEPT !.gate = "timeout", !.timer = 0])

ReviewResolved(s, hasDecision) ==
    IF hasDecision /\ s.researcherDecision.defined
    THEN LET t == [s EXCEPT !.gate = s.researcherDecision.action,
                            !.timer = 0,
                            !.reobserved = @ \/ s.consumed,
                            !.consumed = TRUE]
         IN  IF StopRequested(s)
             THEN FinalEvaluation(t)
             ELSE InterEpochDelay(ClearResearcherDecision([t EXCEPT !.state.status = "training"]))
    ELSE InterEpochDelay([s EXCEPT !.state.status = "training",
                                   !.gate = "timeout",
                                   !.timer = 0])

ReviewStep(s) ==
    IF (s.epoch + 1) % ReviewInterval = 0
    THEN LET t == [s EXCEPT !.state.status = "awaiting_approval"]
         IN  IF RootCancelled(t) THEN TrainingCatch(t, CancelledFailure)
             ELSE IF t.researcherDecision.defined THEN ReviewResolved(t, TRUE)
             ELSE [t EXCEPT !.pc = "awaitReview", !.timer = 0]
    ELSE InterEpochDelay(s)

CheckpointSaved_EpochIndex(s) ==
    ReviewStep([s EXCEPT !.state.checkpoints =
                             Append(@, CheckpointInfo(s.epoch, s.state.currentLoss)),
                         !.state.status = "training"])

CheckpointSaved(s) ==
    ReviewStep([s EXCEPT !.state.checkpoints =
                             Append(@, CheckpointInfo(s.epoch + 1, s.state.currentLoss)),
                         !.state.status = "training"])

CheckpointStep_OffByOne(s) ==
    IF s.epoch % s.config.checkpointInterval = 0
    THEN LET t == [s EXCEPT !.state.status = "checkpointing"]
         IN  IF RootCancelled(t) THEN TrainingCatch(t, CancelledFailure)
             ELSE TPark(t, "saveCheckpoint", TrainingCall("saveCheckpoint", s.epoch + 1, 0))
    ELSE ReviewStep(s)

CheckpointStep(s) ==
    IF (s.epoch + 1) % s.config.checkpointInterval = 0
    THEN LET t == [s EXCEPT !.state.status = "checkpointing"]
         IN  IF RootCancelled(t) THEN TrainingCatch(t, CancelledFailure)
             ELSE TPark(t, "saveCheckpoint", TrainingCall("saveCheckpoint", s.epoch + 1, 0))
    ELSE ReviewStep(s)

EpochTrained(s, loss) ==
    CheckpointStep([s EXCEPT !.state.currentEpoch = s.epoch,
                             !.state.currentLoss = loss,
                             !.state.bestLoss = IF loss < @ THEN loss ELSE @])

TrainingLoop(s) ==
    IF s.epoch < s.state.totalEpochs
    THEN IF s.cancelled THEN TrainingCatch(s, TrainingError)
         ELSE LET st == RngNext(s.rng)
                  t == [s EXCEPT !.rng = st]
              IN  IF RootCancelled(t) THEN TrainingCatch(t, CancelledFailure)
                  ELSE TPark(t, "trainEpoch",
                             TrainingCall("trainEpoch", s.epoch, RngInt(st, 0, ShuffleSeedMax)))
    ELSE FinalEvaluation(s)

TrainingInitialized_FromZero(s) ==
    TrainingLoop([s EXCEPT !.state.status = "training", !.epoch = 0])

TrainingInitialized(s) ==
    TrainingLoop([s EXCEPT !.state.status = "training", !.epoch = s.state.currentEpoch])

TrainingActivities ==
    {"initializeTraining", "trainEpoch", "saveCheckpoint", "evaluateModel", "cleanupTraining"}
TrainingCancellable == TrainingActivities \ {"cleanupTraining"}
TrainingTerminal == {"returned", "thrown"}
TrainingRunning == training.pc \notin (TrainingTerminal \cup {"idle"})

(***************************************************************************)
(* Activations of mlTrainingWorkflow.                                      *)
(***************************************************************************)
InitializeTrainingOk ==
    /\ training.pc = "initializeTraining"
    /\ training' = TrainingInitialized(training)
    /\ UNCHANGED TrainingOnly

TrainEpochOk ==
    /\ training.pc = "trainEpoch"
    /\ \E loss \in Losses : training' = EpochTrained(training, loss)
    /\ UNCHANGED TrainingOnly

SaveCheckpointOk ==
    /\ training.pc = "saveCheckpoint"
    /\ training' = CheckpointSaved(training)
    /\ UNCHANGED TrainingOnly

ReviewDecided ==
    /\ training.pc = "awaitReview"
    /\ training.researcherDecision.defined
    /\ training' = ReviewResolved(training, TRUE)
    /\ UNCHANGED TrainingOnly

ReviewHourPasses ==
    /\ training.pc = "awaitReview"
    /\ ~training.researcherDecision.defined
    /\ training.timer < ReviewTimeoutHours
    /\ training' = [training EXCEPT !.timer = @ + 1]
    /\ UNCHANGED TrainingOnly

ReviewTimeout ==
    /\ training.pc = "awaitReview"
    /\ ~training.researcherDecision.defined
    /\ training.timer = ReviewTimeoutHours
    /\ training' = ReviewResolved(training, FALSE)
    /\ UNCHANGED TrainingOnly

InterEpochDelayElapsed ==
    /\ training.pc = "sleep100ms"
    /\ training' = TrainingLoop([training EXCEPT !.epoch = @ + 1])
    /\ UNCHANGED TrainingOnly

EvaluateModelOk ==
    /\ training.pc = "evaluateModel"
    /\ training' = TrainingReturn(training)
    /\ UNCHANGED TrainingOnly

TrainingActivityFails ==
    /\ training.pc \in TrainingCancellable
    /\ training.attempt = TrainingMaximumAttempts
    /\ training' = TrainingCatch(training, ActivityFailure(training.pc))
    /\ UNCHANGED TrainingOnly

TrainingActivityCancelled ==
    /\ training.pc \in TrainingCancellable
    /\ RootCancelled(training)
    /\ training' = TrainingCatch(training, CancelledFailure)
    /\ UNCHANGED TrainingOnly

CleanupTrainingOk ==
    /\ training.pc = "cleanupTraining"
    /\ training' = TrainingThrow(training)
    /\ UNCHANGED TrainingOnly

CleanupTrainingFails ==
    /\ training.pc = "cleanupTraining"
    /\ training.attempt = TrainingMaximumAttempts
    /\ training' = CleanupFailed(training)
    /\ UNCHANGED TrainingOnly

TrainingActivityRetry ==
    /\ training.pc \in TrainingActivities
    /\ training.attempt < TrainingMaximumAttempts
    /\ training' = [training EXCEPT !.attempt = @ + 1]
    /\ UNCHANGED TrainingOnly

ResearcherDecisionSignal ==
    /\ TrainingRunning
    /\ \E decision \in ResearcherDecisions :
         training' = [training EXCEPT !.researcherDecision = decision, !.consumed = FALSE]
    /\ UNCHANGED TrainingOnly

CancelTrainingSignal ==
    /\ TrainingRunning
    /\ training' = [training EXCEPT !.cancelled = TRUE]
    /\ UNCHANGED TrainingOnly

TrainingCancelExecution ==
    /\ TrainingRunning
    /\ ~training.cancelRequested
    /\ LET s == [training EXCEPT !.cancelRequested = TRUE]
       IN  training' = IF s.pc \in {"awaitReview", "sleep100ms"}
                       THEN TrainingCatch([s EXCEPT !.timer = 0], CancelledFailure)
                       ELSE s
    /\ UNCHANGED TrainingOnly

(***************************************************************************)
(* codebaseAnalysisWorkflow.                                               *)
(*                                                                         *)
(* Money is counted in tenths of a cent.  A task is described by the       *)
(* number of its files; an absent budget or newBudget is 0, which is what  *)
(* the code's `||` and truthiness tests make of 0 as well.  fileCost is    *)
(* the cost field of the results the worker's analyzeFile returns.         *)
(***************************************************************************)
MaxFiles == 3

AnalysisMaximumAttempts == 3
DefaultBudget == 100000
AnalyzeFileCost == 10
PlanGenerationCost == 100
RefactorBatchCost == 500
ProgressInterval == 10
BudgetTimeoutHours == 1
PlanTimeoutHours == 24

TaskBudgets == {0, 10}
NewBudgets == {0, 5, 5000}

AnalysisTasks ==
    [files : 0..MaxFiles, budget : TaskBudgets,
     targetImprovement : BOOLEAN, requiresApproval : BOOLEAN]

NoPlanApproval == [defined |-> FALSE, approved |-> FALSE]

PlanApprovals == [defined : {TRUE}, approved : BOOLEAN]

NoBudgetApproval == [defined |-> FALSE, approved |-> FALSE, newBudget |-> 0]

BudgetApprovals ==
    {a \in [defined : {TRUE}, approved : BOOLEAN, newBudget : NewBudgets] :
        ~a.approved => a.newBudget = 0}

\* task.budget || 100
TaskBudget(task) == IF task.budget # 0 THEN task.budget ELSE DefaultBudget

AnalysisState(task) ==
    [status |-> "initializing",
     currentStage |-> "initialization",
     filesAnalyzed |-> 0,
     totalFiles |-> task.files,
     costSoFar |-> 0,
     budgetRemaining |-> TaskBudget(task)]

AnalysisCall(name, index) == [name |-> name, index |-> index]

APark(s, p, call) == [s EXCEPT !.pc = p, !.attempt = 1, !.calls = Append(@, call)]

\* outer catch block
AnalysisCatch_StatusKept(s, e) ==
    [s EXCEPT !.state.currentStage = "error", !.error = e, !.thrown = e, !.pc = "thrown"]

AnalysisCatch(s, e) ==
    [s EXCEPT !.state.status = "failed",
              !.state.currentStage = "error",
              !.error = e,
              !.thrown = e,
              !.pc = "thrown"]

AnalysisReturn(s) == [s EXCEPT !.pc = "returned"]

\* an activity call issued from the body of the outer try
ACall(s, p, call) ==
    IF RootCancelled(s) THEN AnalysisCatch(s, CancelledFailure) ELSE APark(s, p, call)

Completion(s) ==
    ACall([s EXCEPT !.state.status = "completed", !.state.currentStage = "completed"],
          "notifyCompleted", AnalysisCall("notifyUser", 0))

\* catch block of one batch: roll the batch back, then re-throw
BatchCatch(s, e) ==
    LET t == [s EXCEPT !.error = e]
    IN  IF RootCancelled(t) THEN AnalysisCatch(t, CancelledFailure)
        ELSE APark(t, "rollbackOnError", AnalysisCall("rollbackBatch", s.batch))

\* an activity call issued from the try block of one batch
BCall(s, p, call) ==
    IF RootCancelled(s) THEN BatchCatch(s, CancelledFailure) ELSE APark(s, p, call)

BatchLoop(s) ==
    IF s.batch < s.batches
    THEN BCall(s, "refactorBatch", AnalysisCall("refactorBatch", s.batch))
    ELSE Completion(s)

BatchDone(s) == BatchLoop([s EXCEPT !.state.status = "refactoring", !.batch = @ + 1])

BatchRolledBack(s) == BCall(s, "notifyRolledBack", AnalysisCall("notifyUser", s.batch))

TestsRun(s, passed) ==
    IF ~passed
    THEN BCall(s, "rollbackFailedTests", AnalysisCall("rollbackBatch", s.batch))
    ELSE BatchDone(s)

BatchRefactored(s) ==
    BCall([s EXCEPT !.state.costSoFar = @ + RefactorBatchCost, !.state.status = "testing"],
          "runTests", AnalysisCall("runTests", s.batch))

PlanGateOutcome(s, hasApproval) ==
    IF ~hasApproval THEN "plan-timeout"
    ELSE IF s.planApproval.approved THEN "plan-approved" ELSE "plan-rejected"

\* !hasApproval || !planApproval?.approved
PlanDenied_TimeoutProceeds(s, hasApproval) == hasApproval /\ ~s.planApproval.approved

PlanDenied(s, hasApproval) == ~hasApproval \/ ~s.planApproval.approved

PlanResolved(s, hasApproval) ==
    LET g == [s EXCEPT !.gate = PlanGateOutcome(s, hasApproval), !.timer = 0]
    IN  IF PlanDenied(s, hasApproval)
        THEN AnalysisReturn([g EXCEPT !.state.status = "cancelled",
                                      !.state.currentStage = "plan-rejected"])
        ELSE BatchLoop([g EXCEPT !.state.status = "refactoring",
                                 !.state.currentStage = "executing-refactor",
                                 !.batch = 0])

AwaitPlanApproval(s) ==
    IF RootCancelled(s) THEN AnalysisCatch(s, CancelledFailure)
    ELSE IF s.planApproval.defined THEN PlanResolved(s, TRUE)
    ELSE [s EXCEPT !.pc = "awaitPlanApproval", !.timer = 0]

PlanGenerated(s, batches) ==
    LET t == [s EXCEPT !.batches = batches, !.hasPlan = TRUE,
                       !.state.costSoFar = @ + PlanGenerationCost]
    IN  IF s.task.requiresApproval
        THEN ACall([t EXCEPT !.state.status = "awaiting_approval",
                             !.state.currentStage = "awaiting-plan-approval"],
                   "notifyPlan", AnalysisCall("notifyUser", 0))
        ELSE Completion(t)

PlanStage(s) ==
    IF s.task.targetImprovement /\ s.task.files > 0
    THEN ACall([s EXCEPT !.state.status = "planning",
                         !.state.currentStage = "generating-refactor-plan"],
               "generateRefactorPlan", AnalysisCall("generateRefactorPlan", 0))
    ELSE Completion(s)

FileLoop(s) ==
    IF s.i < s.task.files
    THEN IF s.cancelled
         THEN AnalysisReturn([s EXCEPT !.state.status = "cancelled"])
         ELSE ACall(s, "analyzeFile", AnalysisCall("analyzeFile", s.i))
    ELSE PlanStage(s)

EmitStep(s) ==
    IF s.i % ProgressInterval = 0 \/ s.i = s.task.files - 1
    THEN ACall(s, "emitProgress", AnalysisCall("emitProgress", s.i))
    ELSE FileLoop([s EXCEPT !.i = @ + 1])

BudgetGateOutcome(s, hasApproval) ==
    IF ~hasApproval THEN "budget-timeout"
    ELSE IF s.budgetApproval.approved THEN "budget-approved" ELSE "budget-rejected"

\* !hasApproval || !budgetApproval?.approved
BudgetDenied_TimeoutContinues(s, hasApproval) == hasApproval /\ ~s.budgetApproval.approved

BudgetDenied(s, hasApproval) == ~hasApproval \/ ~s.budgetApproval.approved

\* budgetApproval = undefined
ClearBudgetApproval_Kept(s) == s

ClearBudgetApproval(s) ==
    [s EXCEPT !.budgetApproval = NoBudgetApproval, !.consumed = FALSE]

\* gate, consumed and reobserved record how the budget gates were resolved;
\* ceiling is the ceiling in force by the approvals given so far
BudgetResolved(s, hasApproval) ==
    LET g == [s EXCEPT !.gate = BudgetGateOutcome(s, hasApproval),
                       !.timer = 0,
                       !.reobserved = @ \/ (hasApproval /\ s.consumed),
                       !.consumed = @ \/ hasApproval]
    IN  IF BudgetDenied(s, hasApproval)
        THEN AnalysisReturn([g EXCEPT !.state.status = "cancelled",
                                      !.state.currentStage = "budget-exceeded"])
        ELSE EmitStep(ClearBudgetApproval(
                 [g EXCEPT !.state.budgetRemaining =
                               IF s.budgetApproval.newBudget # 0
                               THEN s.budgetApproval.newBudget - s.state.costSoFar
                               ELSE @,
                           !.ceiling = IF s.budgetApproval.newBudget # 0
                                       THEN s.budgetApproval.newBudget
                                       ELSE @,
                           !.state.status = "analyzing"]))

AwaitBudgetApproval(s) ==
    IF RootCancelled(s) THEN AnalysisCatch(s, CancelledFailure)
    ELSE IF s.budgetApproval.defined THEN BudgetResolved(s, TRUE)
    ELSE [s EXCEPT !.pc = "awaitBudgetApproval", !.timer = 0]

\* state.costSoFar > (task.budget || 100)
BudgetExceeded_Inclusive(task, costSoFar) == costSoFar >= TaskBudget(task)

BudgetExceeded(task, costSoFar) == costSoFar > TaskBudget(task)

FileAnalyzed(s, cost) ==
    LET t == [s EXCEPT !.state.filesAnalyzed = s.i + 1,
                       !.state.costSoFar = @ + cost,
                       !.state.budgetRemaining = TaskBudget(s.task) - (s.state.costSoFar + cost),
                       !.crossings = IF s.state.costSoFar <= s.ceiling
                                        /\ s.state.costSoFar + cost > s.ceiling
                                     THEN @ + 1 ELSE @]
    IN  IF BudgetExceeded(s.task, t.state.costSoFar)
        THEN ACall([t EXCEPT !.state.status = "budget_exceeded",
                             !.state.currentStage = "awaiting-budget-approval",
                             !.budgetGates = @ + 1],
                   "notifyBudget", AnalysisCall("notifyUser", s.i))
        ELSE EmitStep(t)

AnalysisEntry(task) ==
    [task |-> task,
     state |-> AnalysisState(task),
     planApproval |-> NoPlanApproval,
     budgetApproval |-> NoBudgetApproval,
     cancelled |-> FALSE,
     i |-> 0,
     hasPlan |-> FALSE,
     batches |-> 0,
     batch |-> 0,
     pc |-> "start",
     attempt |-> 1,
     error |-> NoError,
     thrown |-> NoError,
     cancelRequested |-> FALSE,
     calls |-> <<>>,
     gate |-> "none",
     timer |-> 0,
     consumed |-> FALSE,
     reobserved |-> FALSE,
     ceiling |-> TaskBudget(task),
     crossings |-> 0,
     budgetGates |-> 0,
     fileCost |-> AnalyzeFileCost]

\* the execution parked on its first activity call
AnalysisStart(task) ==
    FileLoop([AnalysisEntry(task) EXCEPT !.state.status = "analyzing",
                                         !.state.currentStage = "file-analysis"])

AnalysisIdle ==
    [pc |-> "idle", error |-> NoError, consumed |-> FALSE, reobserved |-> FALSE]

OuterActivities ==
    {"analyzeFile", "notifyBudget", "emitProgress", "generateRefactorPlan",
     "notifyPlan", "notifyCompleted", "rollbackOnError"}
BatchActivities == {"refactorBatch", "runTests", "rollbackFailedTests", "notifyRolledBack"}
AnalysisWaits == {"awaitBudgetApproval", "awaitPlanApproval"}
AnalysisTerminal == {"returned", "thrown"}
AnalysisRunning == analysis.pc \notin (AnalysisTerminal \cup {"idle"})

(***************************************************************************)
(* Activations of codebaseAnalysisWorkflow.                                *)
(***************************************************************************)
AnalyzeFileOk ==
    /\ analysis.pc = "analyzeFile"
    /\ analysis' = FileAnalyzed(analysis, analysis.fileCost)
    /\ UNCHANGED AnalysisOnly

NotifyBudgetOk ==
    /\ analysis.pc = "notifyBudget"
    /\ analysis' = AwaitBudgetApproval(analysis)
    /\ UNCHANGED AnalysisOnly

BudgetApprovalObserved ==
    /\ analysis.pc = "awaitBudgetApproval"
    /\ analysis.budgetApproval.defined
    /\ analysis' = BudgetResolved(analysis, TRUE)
    /\ UNCHANGED AnalysisOnly

BudgetHourPasses ==
    /\ analysis.pc = "awaitBudgetApproval"
    /\ ~analysis.budgetApproval.defined
    /\ analysis.timer < BudgetTimeoutHours
    /\ analysis' = [analysis EXCEPT !.timer = @ + 1]
    /\ UNCHANGED AnalysisOnly

BudgetApprovalTimeout ==
    /\ analysis.pc = "awaitBudgetApproval"
    /\ ~analysis.budgetApproval.defined
    /\ analysis.timer = BudgetTimeoutHours
    /\ analysis' = BudgetResolved(analysis, FALSE)
    /\ UNCHANGED AnalysisOnly

EmitProgressOk ==
    /\ analysis.pc = "emitProgress"
    /\ analysis' = FileLoop([analysis EXCEPT !.i = @ + 1])
    /\ UNCHANGED AnalysisOnly

GenerateRefactorPlanOk ==
    /\ analysis.pc = "generateRefactorPlan"
    /\ \E batches \in 0..analysis.task.files :
         analysis' = PlanGenerated(analysis, batches)
    /\ UNCHANGED AnalysisOnly

NotifyPlanOk ==
    /\ analysis.pc = "notifyPlan"
    /\ analysis' = AwaitPlanApproval(analysis)
    /\ UNCHANGED AnalysisOnly

PlanApprovalObserved ==
    /\ analysis.pc = "awaitPlanApproval"
    /\ analysis.planApproval.defined
    /\ analysis' = PlanResolved(analysis, TRUE)
    /\ UNCHANGED AnalysisOnly

PlanHourPasses ==
    /\ analysis.pc = "awaitPlanApproval"
    /\ ~analysis.planApproval.defined
    /\ analysis.timer < PlanTimeoutHours
    /\ analysis' = [analysis EXCEPT !.timer = @ + 1]
    /\ UNCHANGED AnalysisOnly

PlanApprovalTimeout ==
    /\ analysis.pc = "awaitPlanApproval"
    /\ ~analysis.planApproval.defined
    /\ analysis.timer = PlanTimeoutHours
    /\ analysis' = PlanResolved(analysis, FALSE)
    /\ UNCHANGED AnalysisOnly

RefactorBatchOk ==
    /\ analysis.pc = "refactorBatch"
    /\ analysis' = BatchRefactored(analysis)
    /\ UNCHANGED AnalysisOnly

RunTestsOk ==
    /\ analysis.pc = "runTests"
    /\ \E passed \in BOOLEAN : analysis' = TestsRun(analysis, passed)
    /\ UNCHANGED AnalysisOnly

RollbackFailedTestsOk ==
    /\ analysis.pc = "rollbackFailedTests"
    /\ analysis' = BatchRolledBack(analysis)
    /\ UNCHANGED AnalysisOnly

NotifyRolledBackOk ==
    /\ analysis.pc = "notifyRolledBack"
    /\ analysis' = BatchDone(analysis)
    /\ UNCHANGED AnalysisOnly

BatchActivityFails ==
    /\ analysis.pc \in BatchActivities
    /\ analysis.attempt = AnalysisMaximumAttempts
    /\ analysis' = BatchCatch(analysis, ActivityFailure(analysis.pc))
    /\ UNCHANGED AnalysisOnly

BatchActivityCancelled ==
    /\ analysis.pc \in BatchActivities
    /\ RootCancelled(analysis)
    /\ analysis' = BatchCatch(analysis, CancelledFailure)
    /\ UNCHANGED AnalysisOnly

RollbackOnErrorOk ==
    /\ analysis.pc = "rollbackOnError"
    /\ analysis' = AnalysisCatch(analysis, analysis.error)
    /\ UNCHANGED AnalysisOnly

NotifyCompletedOk ==
    /\ analysis.pc = "notifyCompleted"
    /\ analysis' = AnalysisReturn(analysis)
    /\ UNCHANGED AnalysisOnly

AnalysisActivityFails ==
    /\ analysis.pc \in OuterActivities
    /\ analysis.attempt = AnalysisMaximumAttempts
    /\ analysis' = AnalysisCatch(analysis, ActivityFailure(analysis.pc))
    /\ UNCHANGED AnalysisOnly

AnalysisActivityCancelled ==
    /\ analysis.pc \in OuterActivities
    /\ RootCancelled(analysis)
    /\ analysis' = AnalysisCatch(analysis, CancelledFailure)
    /\ UNCHANGED AnalysisOnly

AnalysisActivityRetry ==
    /\ analysis.pc \in OuterActivities \cup BatchActivities
    /\ analysis.attempt < AnalysisMaximumAttempts
    /\ analysis' = [analysis EXCEPT !.attempt = @ + 1]
    /\ UNCHANGED AnalysisOnly

ApproveRefactorPlanSignal ==
    /\ AnalysisRunning
    /\ \E decision \in PlanApprovals :
         analysis' = [analysis EXCEPT !.planApproval = decision]
    /\ UNCHANGED AnalysisOnly

ApproveBudgetSignal ==
    /\ AnalysisRunning
    /\ \E approval \in BudgetApprovals :
         analysis' = [analysis EXCEPT !.budgetApproval = approval, !.consumed = FALSE]
    /\ UNCHANGED AnalysisOnly

CancelAnalysisSignal ==
    /\ AnalysisRunning
    /\ analysis' = [analysis EXCEPT !.cancelled = TRUE]
    /\ UNCHANGED AnalysisOnly

AnalysisCancelExecution ==
    /\ AnalysisRunning
    /\ ~analysis.cancelRequested
    /\ LET s == [analysis EXCEPT !.cancelRequested = TRUE]
       IN  analysis' = IF s.pc \in AnalysisWaits
                       THEN AnalysisCatch([s EXCEPT !.timer = 0], CancelledFailure)
                       ELSE s
    /\ UNCHANGED AnalysisOnly

(***************************************************************************)
(* multiAgentCodebaseWorkflow.                                             *)
(*                                                                         *)
(* Each child is an execution of codebaseAnalysisWorkflow on the fixed     *)
(* two-file task and runs the activations defined above.  issues[c] tells  *)
(* whether the child's analyses have reported an issue of type             *)
(* 'performance-issue' so far.  Promise.all settles when both children     *)
(* have returned or as soon as one of them has failed.  A child still      *)
(* open when the parent closes is terminated by the substrate (the default *)
(* parent-close policy of executeChild).                                   *)
(***************************************************************************)
Children == {"architecture", "security", "performance"}

Phase1Children == {"architecture", "security"}

ChildTask == [files |-> 2, budget |-> 0, targetImprovement |-> FALSE, requiresApproval |-> FALSE]

ChildNotStarted == [AnalysisEntry(ChildTask) EXCEPT !.pc = "notStarted"]

\* executeChild(codebaseAnalysisWorkflow, ...)
ExecuteChild == AnalysisStart(ChildTask)

ChildWorkflowFailure(c) == <<"ChildWorkflowFailure", c>>

ChildClosed(s) == s.pc \in AnalysisTerminal \cup {"terminated"}

ChildOpen(s) == s.pc \notin AnalysisTerminal \cup {"terminated", "notStarted"}

MultiReturn(m) == [m EXCEPT !.pc = "returned", !.status = "completed"]

MultiThrow(m, c) == [m EXCEPT !.pc = "thrown", !.error = ChildWorkflowFailure(c)]

\* architectureResult.issues.some((i) => i.type === 'performance-issue')
NeedsPerformance_Security(m) == m.issues["security"]

NeedsPerformance(m) == m.issues["architecture"]

Phase2(m) ==
    IF NeedsPerformance(m)
    THEN [m EXCEPT !.children["performance"] = ExecuteChild, !.pc = "awaitPerformance"]
    ELSE MultiReturn(m)

MultiStart ==
    [pc |-> "awaitBoth",
     status |-> Undefined,
     children |-> [c \in Children |->
                      IF c \in Phase1Children THEN ExecuteChild ELSE ChildNotStarted],
     issues |-> [c \in Children |-> FALSE],
     performance |-> "null",
     error |-> NoError]

\* no execution of the workflow exists
MultiIdle == [pc |-> "idle"]

MultiTerminal == {"returned", "thrown"}

(***************************************************************************)
(* Activations of the children.                                            *)
(***************************************************************************)
ChildAnalyzeFileOk(c) ==
    /\ multi.children[c].pc = "analyzeFile"
    /\ \E found \in BOOLEAN :
         multi' = [multi EXCEPT
                      !.children[c] = FileAnalyzed(@, @.fileCost),
                      !.issues[c] = @ \/ found]
    /\ UNCHANGED MultiOnly

ChildEmitProgressOk(c) ==
    /\ multi.children[c].pc = "emitProgress"
    /\ multi' = [multi EXCEPT !.children[c] = FileLoop([@ EXCEPT !.i = @ + 1])]
    /\ UNCHANGED MultiOnly

ChildNotifyCompletedOk(c) ==
    /\ multi.children[c].pc = "notifyCompleted"
    /\ multi' = [multi EXCEPT !.children[c] = AnalysisReturn(@)]
    /\ UNCHANGED MultiOnly

ChildActivityRetry(c) ==
    /\ multi.children[c].pc \in OuterActivities
    /\ multi.children[c].attempt < AnalysisMaximumAttempts
    /\ multi' = [multi EXCEPT !.children[c].attempt = @ + 1]
    /\ UNCHANGED MultiOnly

ChildActivityFails(c) ==
    /\ multi.children[c].pc \in OuterActivities
    /\ multi.children[c].attempt = AnalysisMaximumAttempts
    /\ multi' = [multi EXCEPT !.children[c] = AnalysisCatch(@, ActivityFailure(@.pc))]
    /\ UNCHANGED MultiOnly

\* parent-close policy: a child of a closed parent is terminated
ParentClosePolicy(c) ==
    /\ multi.pc \in MultiTerminal
    /\ ChildOpen(multi.children[c])
    /\ multi' = [multi EXCEPT !.children[c].pc = "terminated"]
    /\ UNCHANGED MultiOnly

(***************************************************************************)
(* Activations of the parent.                                              *)
(***************************************************************************)
\* Promise.all resolves: both children have returned
BothChildrenReturned ==
    /\ multi.pc = "awaitBoth"
    /\ \A c \in Phase1Children : multi.children[c].pc = "returned"
    /\ multi' = Phase2(multi)
    /\ UNCHANGED MultiOnly

\* Promise.all rejects: one child has failed
ChildFailureObserved ==
    /\ multi.pc = "awaitBoth"
    /\ \E c \in Phase1Children :
         /\ multi.children[c].pc = "thrown"
         /\ multi' = MultiThrow(multi, c)
    /\ UNCHANGED MultiOnly

PerformanceReturned ==
    /\ multi.pc = "awaitPerformance"
    /\ multi.children["performance"].pc = "returned"
    /\ multi' = MultiReturn([multi EXCEPT !.performance = "result"])
    /\ UNCHANGED MultiOnly

PerformanceFailed ==
    /\ multi.pc = "awaitPerformance"
    /\ multi.children["performance"].pc = "thrown"
    /\ multi' = MultiThrow(multi, "performance")
    /\ UNCHANGED MultiOnly

(***************************************************************************)
(* adaptiveAnalysisWorkflow.                                               *)
(*                                                                         *)
(* results holds, for each batch result, the depth it was obtained at.     *)
(* quality is the latest result of analyzeQuality.  The workflow has no    *)
(* try/catch: a failed activity or a cancellation ends it with that error. *)
(***************************************************************************)
MaxDepth == 3

Strategies == {"breadth-first", "depth-first"}

NoQuality == [recommendation |-> Undefined, suggestedStrategy |-> Undefined]

Qualities ==
    {q \in [recommendation : {"continue", "switch-strategy", "complete"},
            suggestedStrategy : Strategies \cup {Undefined}] :
        q.recommendation # "switch-strategy" => q.suggestedStrategy = Undefined}

AdaptiveCall(name, depth, oldStrategy, newStrategy) ==
    [name |-> name, depth |-> depth, oldStrategy |-> oldStrategy, newStrategy |-> newStrategy]

NoAdaptiveResult == [defined |-> FALSE, strategy |-> Undefined, depth |-> 0, results |-> <<>>]

AdaptivePark(s, p, call) == [s EXCEPT !.pc = p, !.attempt = 1, !.calls = Append(@, call)]

AdaptiveThrow(s, e) == [s EXCEPT !.pc = "thrown", !.error = e]

AdaptiveReturn(s) ==
    [s EXCEPT !.pc = "returned",
              !.result = [defined |-> TRUE,
                          strategy |-> s.strategy,
                          depth |-> s.depth - 1,
                          results |-> s.results]]

AdaptiveActivity(s, p, call) ==
    IF RootCancelled(s) THEN AdaptiveThrow(s, CancelledFailure) ELSE AdaptivePark(s, p, call)

\* while (depth <= task.maxDepth)
DepthWithinLimit_Inclusive(s) == s.depth <= s.task.maxDepth + 1

DepthWithinLimit(s) == s.depth <= s.task.maxDepth

AdaptiveLoop(s) ==
    IF DepthWithinLimit(s)
    THEN AdaptiveActivity(s, "analyzeFile",
                          AdaptiveCall("analyzeFile", s.depth, Undefined, Undefined))
    ELSE AdaptiveReturn(s)

\* depth++, then sleep('5 seconds')
RateLimit(s) ==
    LET t == [s EXCEPT !.depth = @ + 1]
    IN  IF RootCancelled(t) THEN AdaptiveThrow(t, CancelledFailure)
        ELSE [t EXCEPT !.pc = "sleep5s"]

\* the event is built after strategy has been reassigned
StrategySwitched(s, suggested) ==
    LET t == [s EXCEPT !.strategy = suggested]
    IN  AdaptiveActivity(t, "publishProgress",
                         AdaptiveCall("publishProgress", s.depth, t.strategy, suggested))

QualityAnalyzed(s, q) ==
    LET t == [s EXCEPT !.quality = q]
    IN  IF q.recommendation = "complete" THEN AdaptiveReturn(t)
        ELSE IF q.recommendation = "switch-strategy" /\ q.suggestedStrategy # Undefined
             THEN StrategySwitched(t, q.suggestedStrategy)
             ELSE RateLimit(t)

BatchAnalyzed(s) ==
    AdaptiveActivity([s EXCEPT !.results = Append(@, s.depth)], "analyzeQuality",
                     AdaptiveCall("analyzeQuality", s.depth, Undefined, Undefined))

AdaptiveEntry(maxDepth) ==
    [task |-> [maxDepth |-> maxDepth],
     strategy |-> "breadth-first",
     depth |-> 1,
     results |-> <<>>,
     quality |-> NoQuality,
     pc |-> "start",
     attempt |-> 1,
     error |-> NoError,
     result |-> NoAdaptiveResult,
     cancelRequested |-> FALSE,
     calls |-> <<>>]

AdaptiveStart(maxDepth) == AdaptiveLoop(AdaptiveEntry(maxDepth))

AdaptiveIdle == [pc |-> "idle"]

AdaptiveActivities == {"analyzeFile", "analyzeQuality", "publishProgress"}
AdaptiveTerminal == {"returned", "thrown"}
AdaptiveRunning == adaptive.pc \notin (AdaptiveTerminal \cup {"idle"})

(***************************************************************************)
(* Activations of adaptiveAnalysisWorkflow.                                *)
(***************************************************************************)
AdaptiveAnalyzeFileOk ==
    /\ adaptive.pc = "analyzeFile"
    /\ adaptive' = BatchAnalyzed(adaptive)
    /\ UNCHANGED AdaptiveOnly

AnalyzeQualityOk ==
    /\ adaptive.pc = "analyzeQuality"
    /\ \E q \in Qualities : adaptive' = QualityAnalyzed(adaptive, q)
    /\ UNCHANGED AdaptiveOnly

PublishProgressOk ==
    /\ adaptive.pc = "publishProgress"
    /\ adaptive' = RateLimit(adaptive)
    /\ UNCHANGED AdaptiveOnly

RateLimitElapsed ==
    /\ adaptive.pc = "sleep5s"
    /\ adaptive' = AdaptiveLoop(adaptive)
    /\ UNCHANGED AdaptiveOnly

AdaptiveActivityFails ==
    /\ adaptive.pc \in AdaptiveActivities
    /\ adaptive.attempt = AnalysisMaximumAttempts
    /\ adaptive' = AdaptiveThrow(adaptive, ActivityFailure(adaptive.pc))
    /\ UNCHANGED AdaptiveOnly

AdaptiveActivityRetry ==
    /\ adaptive.pc \in AdaptiveActivities
    /\ adaptive.attempt < AnalysisMaximumAttempts
    /\ adaptive' = [adaptive EXCEPT !.attempt = @ + 1]
    /\ UNCHANGED AdaptiveOnly

AdaptiveActivityCancelled ==
    /\ adaptive.pc \in AdaptiveActivities
    /\ RootCancelled(adaptive)
    /\ adaptive' = AdaptiveThrow(adaptive, CancelledFailure)
    /\ UNCHANGED AdaptiveOnly

AdaptiveCancelExecution ==
    /\ AdaptiveRunning
    /\ ~adaptive.cancelRequested
    /\ LET s == [adaptive EXCEPT !.cancelRequested = TRUE]
       IN  adaptive' = IF s.pc = "sleep5s" THEN AdaptiveThrow(s, CancelledFailure) ELSE s
    /\ UNCHANGED AdaptiveOnly

(***************************************************************************)
(* The payment activities and the module-level state they share.           *)
(*                                                                         *)
(* payments is the Map in insertion order; a payment's id is its position  *)
(* (a fresh uuid in the code).  order and charged are not fields of the    *)
(* code's PaymentResult: they record for which order the gateway was       *)
(* charged.  processPayment suspends once, at its sleep, between the       *)
(* lookup and the charge, so calls in flight are kept in pending.  log     *)
(* holds what each finished call returned or threw.                        *)
(***************************************************************************)
MaxCalls == 3

DeclineThreshold == 10000
TransientAttemptsLimit == 3

OrderIds == {"order-1", "order-2"}

PaymentInputs ==
    [orderId : OrderIds, amount : {100, 15000}, type : {"credit_card", "paypal"}]

PaymentOutcome(input, outcome, paymentId) ==
    [orderId |-> input.orderId, outcome |-> outcome, paymentId |-> paymentId]

RemoveAt(seq, k) == SubSeq(seq, 1, k - 1) \o SubSeq(seq, k + 1, Len(seq))

\* Array.from(payments.values()).find(p => p.status === 'success' && input.orderId === input.orderId)
ExistingPayment(g, input) ==
    LET found == {i \in 1..Len(g.payments) :
                     g.payments[i].status = "success" /\ input.orderId = input.orderId}
    IN  IF found = {} THEN 0 ELSE CHOOSE i \in found : \A j \in found : i <= j

\* the call up to its sleep
PaymentRequested(g, input) ==
    LET h == [g EXCEPT !.calls = @ + 1]
    IN  IF ExistingPayment(g, input) # 0
        THEN [h EXCEPT !.log = Append(@, PaymentOutcome(input, "existing",
                                                        ExistingPayment(g, input)))]
        ELSE [h EXCEPT !.pending = Append(@, input)]

TransientFailure(g, input) ==
    [g EXCEPT !.log = Append(@, PaymentOutcome(input, "PaymentError: unavailable", 0))]

PaymentDeclined(g, input) ==
    [g EXCEPT !.payments = Append(@, [status |-> "failed", order |-> input.orderId,
                                      charged |-> FALSE]),
              !.log = Append(@, PaymentOutcome(input, "PaymentError: declined", 0))]

PaymentSucceeded(g, input) ==
    [g EXCEPT !.payments = Append(@, [status |-> "success", order |-> input.orderId,
                                      charged |-> TRUE]),
              !.paymentAttempts = 0,
              !.log = Append(@, PaymentOutcome(input, "success", Len(g.payments) + 1))]

\* the call after its sleep; transient tells whether Math.random() < 0.3
PaymentAttempted(g, k, transient) ==
    LET input == g.pending[k]
        h == [g EXCEPT !.pending = RemoveAt(@, k), !.paymentAttempts = @ + 1]
    IN  IF transient /\ h.paymentAttempts < TransientAttemptsLimit
        THEN TransientFailure(h, input)
        ELSE IF input.amount > DeclineThreshold /\ input.type = "credit_card"
             THEN PaymentDeclined(h, input)
             ELSE PaymentSucceeded(h, input)

\* refundPayment
PaymentRefunded_Gateway(g, paymentId) ==
    IF paymentId \in 1..Len(g.payments) /\ g.payments[paymentId].status = "success"
    THEN [g EXCEPT !.payments[paymentId].status = "failed"]
    ELSE g

GatewayStart ==
    [pc |-> "ready", payments |-> <<>>, paymentAttempts |-> 0, pending |-> <<>>,
     log |-> <<>>, calls |-> 0]

\* the payment module is not loaded
GatewayIdle == [pc |-> "idle"]

ProcessPaymentCalled ==
    /\ gateway.pc = "ready"
    /\ gateway.calls < MaxCalls
    /\ \E input \in PaymentInputs : gateway' = PaymentRequested(gateway, input)
    /\ UNCHANGED GatewayOnly

ProcessPaymentResumed ==
    /\ gateway.pc = "ready"
    /\ \E k \in 1..Len(gateway.pending), transient \in BOOLEAN :
         gateway' = PaymentAttempted(gateway, k, transient)
    /\ UNCHANGED GatewayOnly

RefundPaymentCalled ==
    /\ gateway.pc = "ready"
    /\ \E paymentId \in 1..Len(gateway.payments) :
         /\ gateway.payments[paymentId].status = "success"
         /\ gateway' = PaymentRefunded_Gateway(gateway, paymentId)
    /\ UNCHANGED GatewayOnly

(***************************************************************************)
(* The inventory activities and the module-level state they share.         *)
(*                                                                         *)
(* inventoryDB maps a product to its available stock; reservations is the  *)
(* Map of open reservations, a reservation's id being the number of the    *)
(* call that made it (a fresh uuid in the code).  Each activity sleeps     *)
(* first and then runs to its end without another await, so a call is one  *)
(* step whatever other calls are in flight.  outcome is what the latest    *)
(* call returned or threw.                                                 *)
(***************************************************************************)
MaxReservations == 3

Products == {"product-4", "product-5"}

\* ['product-4', 10], ['product-5', 0]
InitialStock == [p \in Products |-> IF p = "product-4" THEN 10 ELSE 0]

Quantities == {4, 6}

OrderItems == [productId : Products, quantity : Quantities]

ItemLists == {<<a>> : a \in OrderItems} \cup {<<a, b>> : a \in OrderItems, b \in OrderItems}

ReserveInventoryInputs == [orderId : OrderIds, items : ItemLists]

\* the first loop: every item is checked against the stock as it stands
AllInStock(db, items) ==
    \A i \in 1..Len(items) : ~(db[items[i].productId] < items[i].quantity)

RECURSIVE ReduceStock(_, _)
\* the second loop: inventoryDB.set(productId, current - quantity), item by item
ReduceStock(db, items) ==
    IF items = <<>> THEN db
    ELSE ReduceStock([db EXCEPT ![Head(items).productId] = @ - Head(items).quantity],
                     Tail(items))

RECURSIVE RestoreStock(_, _)
RestoreStock(db, items) ==
    IF items = <<>> THEN db
    ELSE RestoreStock([db EXCEPT ![Head(items).productId] = @ + Head(items).quantity],
                      Tail(items))

ReserveInventory(inv, input) ==
    LET n == inv.calls + 1
    IN  IF ~AllInStock(inv.inventoryDB, input.items)
        THEN [inv EXCEPT !.calls = n, !.outcome = "InventoryError"]
        ELSE [inv EXCEPT !.calls = n,
                         !.outcome = "reserved",
                         !.inventoryDB = ReduceStock(@, input.items),
                         !.reservations = @ \cup {[reservationId |-> n,
                                                   orderId |-> input.orderId,
                                                   items |-> input.items]}]

ReleaseInventory(inv, reservationId) ==
    LET found == {r \in inv.reservations : r.reservationId = reservationId}
    IN  IF found = {}
        THEN [inv EXCEPT !.outcome = "not found"]
        ELSE LET reservation == CHOOSE r \in found : TRUE
             IN  [inv EXCEPT !.outcome = "released",
                             !.inventoryDB = RestoreStock(@, reservation.items),
                             !.reservations = @ \ {reservation}]

InventoryStart ==
    [pc |-> "ready", inventoryDB |-> InitialStock, reservations |-> {}, calls |-> 0,
     outcome |-> Undefined]

\* the inventory module is not loaded
InventoryIdle == [pc |-> "idle"]

ReserveInventoryCalled ==
    /\ inventory.pc = "ready"
    /\ inventory.calls < MaxReservations
    /\ \E input \in ReserveInventoryInputs : inventory' = ReserveInventory(inventory, input)
    /\ UNCHANGED InventoryOnly

ReleaseInventoryCalled ==
    /\ inventory.pc = "ready"
    /\ \E reservationId \in 1..MaxReservations :
         inventory' = ReleaseInventory(inventory, reservationId)
    /\ UNCHANGED InventoryOnly

OrderInit ==
    /\ training = TrainingIdle
    /\ analysis = AnalysisIdle
    /\ instances = NoInstances
    /\ multi = MultiIdle
    /\ adaptive = AdaptiveIdle
    /\ gateway = GatewayIdle
    /\ inventory = InventoryIdle
    /\ \E amount \in Amounts : order = OrderStart(amount)

OrderSubstrate ==
    \/ OrderActivityRetry
    \/ OrderNotificationRetry
    \/ OrderActivityCancelled

OrderProgress ==
    \/ ReserveInventoryOk
    \/ ReserveInventoryFails
    \/ NotifyReservedSettled
    \/ ProcessPaymentOk
    \/ ProcessPaymentFails
    \/ NotifyPaidSettled
    \/ NotifyAdminSettled
    \/ ApprovalObserved
    \/ ApprovalHourPasses
    \/ ApprovalTimeout
    \/ CreateShipmentOk
    \/ CreateShipmentFails
    \/ NotifyShippedSettled
    \/ SleepElapsed
    \/ NotifyCompletedSettled
    \/ CancelShipmentOk
    \/ CancelShipmentFails
    \/ RefundPaymentOk
    \/ RefundPaymentFails
    \/ ReleaseInventoryOk
    \/ ReleaseInventoryFails
    \/ NotifyFailedSettled

OrderExternal ==
    \/ ApproveOrderSignal
    \/ CancelOrderSignal
    \/ OrderCancelExecution

OrderNext == OrderProgress \/ OrderSubstrate \/ OrderExternal

SpecOrder == OrderInit /\ [][OrderNext]_vars

OrderFair == WF_vars(OrderProgress)

FairSpecOrder == SpecOrder /\ OrderFair

TrainingInit ==
    /\ order = OrderIdle
    /\ analysis = AnalysisIdle
    /\ instances = NoInstances
    /\ multi = MultiIdle
    /\ adaptive = AdaptiveIdle
    /\ gateway = GatewayIdle
    /\ inventory = InventoryIdle
    /\ \E config \in TrainingConfigs :
         \E resume \in {NoCheckpoint} \cup {CheckpointInfo(k, l) : k \in ResumeEpochs, l \in ResumeLosses} :
            training = TrainingStart(config, resume)

TrainingProgress ==
    \/ InitializeTrainingOk
    \/ TrainEpochOk
    \/ SaveCheckpointOk
    \/ ReviewDecided
    \/ ReviewHourPasses
    \/ ReviewTimeout
    \/ InterEpochDelayElapsed
    \/ EvaluateModelOk
    \/ TrainingActivityFails
    \/ CleanupTrainingOk
    \/ CleanupTrainingFails

TrainingSubstrate == TrainingActivityRetry \/ TrainingActivityCancelled

TrainingExternal ==
    \/ ResearcherDecisionSignal
    \/ CancelTrainingSignal
    \/ TrainingCancelExecution

TrainingNext == TrainingProgress \/ TrainingSubstrate \/ TrainingExternal

SpecTraining == TrainingInit /\ [][TrainingNext]_vars

\* a training execution all of whose activities succeed (after retries, if
\* any), that receives no signal and is not cancelled
UndisturbedTrainingNext ==
    \/ InitializeTrainingOk
    \/ TrainEpochOk
    \/ SaveCheckpointOk
    \/ ReviewHourPasses
    \/ ReviewTimeout
    \/ InterEpochDelayElapsed
    \/ EvaluateModelOk
    \/ TrainingActivityRetry

\* every activity and timer the execution is parked on eventually completes
UndisturbedTrainingFair == WF_vars(UndisturbedTrainingNext)

FairSpecUndisturbedTraining ==
    TrainingInit /\ [][UndisturbedTrainingNext]_vars /\ UndisturbedTrainingFair

AnalysisInit ==
    /\ order = OrderIdle
    /\ training = TrainingIdle
    /\ instances = NoInstances
    /\ multi = MultiIdle
    /\ adaptive = AdaptiveIdle
    /\ gateway = GatewayIdle
    /\ inventory = InventoryIdle
    /\ \E task \in AnalysisTasks : analysis = AnalysisStart(task)

AnalysisProgress ==
    \/ AnalyzeFileOk
    \/ NotifyBudgetOk
    \/ BudgetApprovalObserved
    \/ BudgetHourPasses
    \/ BudgetApprovalTimeout
    \/ EmitProgressOk
    \/ GenerateRefactorPlanOk
    \/ NotifyPlanOk
    \/ PlanApprovalObserved
    \/ PlanHourPasses
    \/ PlanApprovalTimeout
    \/ RefactorBatchOk
    \/ RunTestsOk
    \/ RollbackFailedTestsOk
    \/ NotifyRolledBackOk
    \/ BatchActivityFails
    \/ RollbackOnErrorOk
    \/ NotifyCompletedOk
    \/ AnalysisActivityFails

AnalysisSubstrate ==
    \/ AnalysisActivityRetry
    \/ BatchActivityCancelled
    \/ AnalysisActivityCancelled

AnalysisExternal ==
    \/ ApproveRefactorPlanSignal
    \/ ApproveBudgetSignal
    \/ CancelAnalysisSignal
    \/ AnalysisCancelExecution

AnalysisNext == AnalysisProgress \/ AnalysisSubstrate \/ AnalysisExternal

SpecAnalysis == AnalysisInit /\ [][AnalysisNext]_vars

(***************************************************************************)
(* Scenario D: a task of 20 files with budget 5.00 on a worker whose       *)
(* analyzeFile reports a cost of 0.50 per file; the approver answers the   *)
(* budget gate with a rejection or with an approval carrying newBudget     *)
(* 10.00.                                                                  *)
(***************************************************************************)
ScenarioDTask ==
    [files |-> 20, budget |-> 5000, targetImprovement |-> FALSE, requiresApproval |-> FALSE]

ScenarioDApprovals ==
    {[defined |-> TRUE, approved |-> TRUE, newBudget |-> 10000],
     [defined |-> TRUE, approved |-> FALSE, newBudget |-> 0]}

ScenarioDInit ==
    /\ order = OrderIdle
    /\ training = TrainingIdle
    /\ instances = NoInstances
    /\ multi = MultiIdle
    /\ adaptive = AdaptiveIdle
    /\ gateway = GatewayIdle
    /\ inventory = InventoryIdle
    /\ analysis = [AnalysisStart(ScenarioDTask) EXCEPT !.fileCost = 500]

ScenarioDApproveBudgetSignal ==
    /\ AnalysisRunning
    /\ \E approval \in ScenarioDApprovals :
         analysis' = [analysis EXCEPT !.budgetApproval = approval, !.consumed = FALSE]
    /\ UNCHANGED AnalysisOnly

ScenarioDNext ==
    \/ AnalyzeFileOk
    \/ NotifyBudgetOk
    \/ BudgetApprovalObserved
    \/ BudgetHourPasses
    \/ BudgetApprovalTimeout
    \/ EmitProgressOk
    \/ NotifyCompletedOk
    \/ AnalysisActivityFails
    \/ AnalysisActivityRetry
    \/ AnalysisActivityCancelled
    \/ ScenarioDApproveBudgetSignal
    \/ CancelAnalysisSignal
    \/ AnalysisCancelExecution

SpecScenarioD == ScenarioDInit /\ [][ScenarioDNext]_vars

RngInit ==
    /\ order = OrderIdle
    /\ training = TrainingIdle
    /\ analysis = AnalysisIdle
    /\ multi = MultiIdle
    /\ adaptive = AdaptiveIdle
    /\ gateway = GatewayIdle
    /\ inventory = InventoryIdle
    /\ \E seeds \in [RngInstances -> RngSeeds] :
         instances = [i \in RngInstances |-> NewInstance(seeds[i])]

RngNextStep == RngNextCalled \/ RngNextIntCalled

SpecRng == RngInit /\ [][RngNextStep]_vars

GatewayInit ==
    /\ order = OrderIdle
    /\ training = TrainingIdle
    /\ analysis = AnalysisIdle
    /\ instances = NoInstances
    /\ multi = MultiIdle
    /\ adaptive = AdaptiveIdle
    /\ gateway = GatewayStart
    /\ inventory = InventoryIdle

GatewayNext == ProcessPaymentCalled \/ ProcessPaymentResumed \/ RefundPaymentCalled

SpecGateway == GatewayInit /\ [][GatewayNext]_vars

InventoryInit ==
    /\ order = OrderIdle
    /\ training = TrainingIdle
    /\ analysis = AnalysisIdle
    /\ instances = NoInstances
    /\ multi = MultiIdle
    /\ adaptive = AdaptiveIdle
    /\ gateway = GatewayIdle
    /\ inventory = InventoryStart

InventoryNext == ReserveInventoryCalled \/ ReleaseInventoryCalled

SpecInventory == InventoryInit /\ [][InventoryNext]_vars

AdaptiveInit ==
    /\ order = OrderIdle
    /\ training = TrainingIdle
    /\ analysis = AnalysisIdle
    /\ instances = NoInstances
    /\ multi = MultiIdle
    /\ gateway = GatewayIdle
    /\ inventory = InventoryIdle
    /\ \E maxDepth \in 0..MaxDepth : adaptive = AdaptiveStart(maxDepth)

AdaptiveProgress ==
    \/ AdaptiveAnalyzeFileOk
    \/ AnalyzeQualityOk
    \/ PublishProgressOk
    \/ RateLimitElapsed
    \/ AdaptiveActivityFails

AdaptiveSubstrate ==
    \/ AdaptiveActivityRetry
    \/ AdaptiveActivityCancelled
    \/ AdaptiveCancelExecution

AdaptiveNext == AdaptiveProgress \/ AdaptiveSubstrate

SpecAdaptive == AdaptiveInit /\ [][AdaptiveNext]_vars

\* every activity and timer the execution is parked on eventually completes
AdaptiveFair == WF_vars(AdaptiveProgress)

FairSpecAdaptive == SpecAdaptive /\ AdaptiveFair

MultiInit ==
    /\ order = OrderIdle
    /\ training = TrainingIdle
    /\ analysis = AnalysisIdle
    /\ instances = NoInstances
    /\ multi = MultiStart
    /\ adaptive = AdaptiveIdle
    /\ gateway = GatewayIdle
    /\ inventory = InventoryIdle

MultiChildren ==
    \E c \in Children :
        \/ ChildAnalyzeFileOk(c)
        \/ ChildEmitProgressOk(c)
        \/ ChildNotifyCompletedOk(c)
        \/ ChildActivityRetry(c)
        \/ ChildActivityFails(c)
        \/ ParentClosePolicy(c)

MultiParent ==
    \/ BothChildrenReturned
    \/ ChildFailureObserved
    \/ PerformanceReturned
    \/ PerformanceFailed

MultiNext == MultiChildren \/ MultiParent

SpecMulti == MultiInit /\ [][MultiNext]_vars

(***************************************************************************)
(* One execution of any of the three workflows.                            *)
(***************************************************************************)
Init == OrderInit \/ TrainingInit \/ AnalysisInit

Next == OrderNext \/ TrainingNext \/ AnalysisNext

Spec == Init /\ [][Next]_vars

(***************************************************************************)
(* Observations on an order execution.                                     *)
(***************************************************************************)
Compensations == SelectSeq(order.calls, LAMBDA a : a \in CompensatingActivities)

ExpectedCompensations(k) ==
    CASE k = 0 -> <<>>
      [] k = 1 -> <<"releaseInventory">>
      [] k = 2 -> <<"refundPayment", "releaseInventory">>
      [] OTHER -> <<"cancelShipment", "refundPayment", "releaseInventory">>

IsPrefix(p, q) == Len(p) <= Len(q) /\ SubSeq(q, 1, Len(p)) = p

ForwardSteps == <<"reserveInventory", "processPayment", "createShipment">>

NoCancellation == ~order.isCancelled /\ ~order.cancelRequested

ForwardActivityFailed == order.error[1] = "ActivityFailure"

AfterLastCheck == {"createShipment", "notifyShipped", "sleep7d", "notifyCompleted"}

\* C1: when the forward path fails after the first k of reserve, pay, ship
\* succeeded, the compensations invoked are exactly those of the succeeded
\* steps, in the order cancelShipment, refundPayment, releaseInventory, each
\* once; none is invoked while the forward path runs, and none when k = 0.
C1_CompensationsReverseOrder ==
    /\ IsPrefix(order.succeeded, ForwardSteps)
    /\ order.state.status \notin {"compensating", "failed"} => Compensations = <<>>
    /\ IsPrefix(Compensations, ExpectedCompensations(Len(order.succeeded)))
    /\ order.pc \in {"notifyFailed", "thrown"} =>
         Compensations = ExpectedCompensations(Len(order.succeeded))

C1_Witness ==
    /\ order.pc = "thrown"
    /\ Len(order.succeeded) = 3
    /\ Compensations = <<"cancelShipment", "refundPayment", "releaseInventory">>

\* C2: a failed compensation does not stop the remaining compensations and is
\* not re-thrown: the execution ends with status 'failed' and the error raised
\* is the error that triggered the rollback, never a compensation error.
C2_CompensationBestEffort ==
    order.pc = "thrown" =>
      /\ order.state.status = "failed"
      /\ order.thrown = order.error
      /\ order.thrown # NoError
      /\ order.thrown \notin {ActivityFailure(c) : c \in CompensatingActivities}
      /\ order.errlog # <<>> =>
           Compensations = ExpectedCompensations(Len(order.succeeded))

C2_Witness ==
    /\ order.pc = "thrown"
    /\ order.errlog = <<"Failed to refund payment:">>
    /\ Compensations = <<"refundPayment", "releaseInventory">>
    /\ order.thrown = ActivityFailure("createShipment")

\* C3: once the order is 'compensating', no cancelOrder signal and no
\* cancellation of the execution aborts the rollback: every compensation of a
\* recorded step is invoked and the status becomes 'failed'.
C3_RollbackNotCancellable ==
    (order.state.status = "compensating")
      ~> (/\ order.pc = "thrown"
          /\ order.state.status = "failed"
          /\ Compensations = ExpectedCompensations(Len(order.succeeded)))

C3_Witness ==
    /\ order.pc = "thrown"
    /\ order.state.status = "failed"
    /\ Compensations = <<"refundPayment", "releaseInventory">>
    /\ order.cancelRequestedAt = "refundPayment"

\* C4: for an order above the threshold, the 24-hour timeout and an explicit
\* rejection end alike: createShipment is never invoked, refundPayment and then
\* releaseInventory are invoked, and the final status is 'failed'.
C4_TimeoutEqualsRejection ==
    order.gate \in {"rejected", "timeout"} =>
      /\ RequiresApproval(order)
      /\ "createShipment" \notin {order.calls[i] : i \in 1..Len(order.calls)}
      /\ order.pc \notin {"returned"}
      /\ order.state.rejectedReason # Undefined
      /\ order.pc = "thrown" =>
           /\ Compensations = <<"refundPayment", "releaseInventory">>
           /\ order.state.status = "failed"

C4_Witness ==
    /\ order.pc = "thrown"
    /\ order.gate = "timeout"
    /\ order.state.rejectedReason = "Approval timeout"
    /\ Compensations = <<"refundPayment", "releaseInventory">>

\* C5: an order of at most 5000 never awaits approval; when its three
\* activities succeed and no cancellation arrives it invokes no compensation
\* and ends 'completed' with the three progress flags set.
C5_NormalOrderCompletes ==
    order.orderInput.totalAmount <= ApprovalThreshold =>
      /\ order.state.status # "awaiting_approval"
      /\ order.pc \notin {"notifyAdmin", "awaitApproval"}
      /\ order.gate = "none"
      /\ (order.pc \in OrderTerminal /\ NoCancellation /\ ~ForwardActivityFailed) =>
           /\ order.pc = "returned"
           /\ order.state.status = "completed"
           /\ order.state.inventoryReserved
           /\ order.state.paymentProcessed
           /\ order.state.shipmentCreated
           /\ Compensations = <<>>

C5_Witness ==
    /\ order.orderInput.totalAmount = ApprovalThreshold
    /\ order.pc = "returned"
    /\ order.state.status = "completed"
    /\ NoCancellation

\* C6: an order above 5000 is 'awaiting_approval' once payment succeeded, never
\* invokes createShipment before an approveOrder decision with approved = true
\* was received, and after that approval (no cancellation, no activity failure)
\* ships and ends 'completed' with approvedBy recorded.
C6_HighValueNeedsApproval ==
    order.orderInput.totalAmount > ApprovalThreshold =>
      /\ order.pc \in {"notifyAdmin", "awaitApproval"} =>
           /\ order.state.status = "awaiting_approval"
           /\ order.succeeded = <<"reserveInventory", "processPayment">>
      /\ "createShipment" \in {order.calls[i] : i \in 1..Len(order.calls)} =>
           /\ order.gate = "approved"
           /\ order.approvalDecisionAt # "never"
           /\ order.state.approvedBy = "admin"
      /\ (/\ order.pc \in OrderTerminal
          /\ order.gate = "approved"
          /\ NoCancellation
          /\ ~ForwardActivityFailed) =>
           /\ order.pc = "returned"
           /\ order.state.status = "completed"
           /\ order.state.shipmentCreated
           /\ order.state.approvedBy = "admin"

C6_Witness ==
    /\ order.orderInput.totalAmount = 10000
    /\ order.pc = "returned"
    /\ order.state.status = "completed"
    /\ order.state.approvedBy = "admin"
    /\ order.approvalDecisionAt = "awaitApproval"
    /\ order.approvalDecision.approved

\* C7 (as claimed): a cancelOrder signal received by an execution that is not
\* yet terminal always ends it 'failed' by way of compensation, also when it
\* arrives during the 7-day wait after shipment.
C7_AnyCancelOrderCompensates ==
    (order.pc \in OrderTerminal /\ order.isCancelled) =>
      (order.pc = "thrown" /\ order.state.status = "failed")

\* C7 (amended): a cancelOrder signal received before the execution has passed
\* the cancellation check that precedes createShipment ends it 'failed' after
\* the rollback; the 7-day wait is interrupted only by a cancellation of the
\* execution, which also ends it 'failed'.
C7_CancelBeforeLastCheckCompensates ==
    (/\ order.pc \in OrderTerminal
     /\ \/ order.isCancelled /\ order.isCancelledAt \notin AfterLastCheck
        \/ order.cancelRequested /\ order.cancelRequestedAt # "notifyCompleted")
    => (order.pc = "thrown" /\ order.state.status = "failed")

C7_Witness ==
    /\ order.pc = "thrown"
    /\ order.state.status = "failed"
    /\ order.error = OrderCancelledError
    /\ order.isCancelledAt = "processPayment"
    /\ Compensations = <<"refundPayment", "releaseInventory">>

\* C9: compensation does not reset the recorded progress: in 'compensating'
\* and 'failed' the flags and correlation ids of the steps that had succeeded
\* are still those recorded when they succeeded.
C9_ProgressSurvivesCompensation ==
    LET done(a) == \E i \in 1..Len(order.succeeded) : order.succeeded[i] = a
    IN  order.state.status \in {"compensating", "failed"} =>
          /\ order.state.inventoryReserved = done("reserveInventory")
          /\ order.state.paymentProcessed = done("processPayment")
          /\ order.state.shipmentCreated = done("createShipment")
          /\ order.state.reservationId = order.reservationId
          /\ order.state.paymentId = order.paymentId
          /\ order.state.shipmentId = order.shipmentId
          /\ done("reserveInventory") => order.state.reservationId \in {r.reservationId : r \in Reservations}
          /\ done("processPayment") => order.state.paymentId \in {q.paymentId : q \in Payments}
          /\ done("createShipment") => order.state.shipmentId \in {h.shipmentId : h \in Shipments}

C9_Witness ==
    /\ order.pc = "thrown"
    /\ order.error = ActivityFailure("processPayment")
    /\ order.state.status = "failed"
    /\ order.state.inventoryReserved
    /\ order.state.reservationId = "res-1"
    /\ Compensations = <<"releaseInventory">>

(***************************************************************************)
(* Observations on a training execution.                                   *)
(***************************************************************************)
TrainEpochCalls == SelectSeq(training.calls, LAMBDA c : c.name = "trainEpoch")

ResumeEpoch == training.resumeFromCheckpoint.epoch

(***************************************************************************)
(* C10: a training execution started with resumeFromCheckpoint whose       *)
(* epoch is k never invokes trainEpoch for an epoch index below k, and     *)
(* the first trainEpoch call it issues is for index k.                     *)
(***************************************************************************)
C10_ResumeSkipsTrainedEpochs ==
    training.resumeFromCheckpoint.defined =>
        /\ \A i \in 1..Len(TrainEpochCalls) : TrainEpochCalls[i].epoch >= ResumeEpoch
        /\ TrainEpochCalls # <<>> => TrainEpochCalls[1].epoch = ResumeEpoch
        /\ \A i \in 1..Len(TrainEpochCalls) : TrainEpochCalls[i].epoch = ResumeEpoch + i - 1

C10_Witness ==
    /\ training.resumeFromCheckpoint.defined
    /\ ResumeEpoch = 3
    /\ Len(TrainEpochCalls) >= 2
    /\ TrainEpochCalls[1].epoch = 3
    /\ training.pc = "returned"

(***************************************************************************)
(* C8: every execution of the order, training and codebase-analysis        *)
(* workflows that has returned or thrown has its status in                 *)
(* {completed, failed, cancelled}; none terminates with an intermediate    *)
(* status.                                                                 *)
(***************************************************************************)
FinalStatuses == {"completed", "failed", "cancelled"}

C8_TerminatesWithFinalStatus ==
    /\ order.pc \in OrderTerminal => order.state.status \in FinalStatuses
    /\ training.pc \in TrainingTerminal => training.state.status \in FinalStatuses
    /\ analysis.pc \in AnalysisTerminal => analysis.state.status \in FinalStatuses
    /\ order.pc = "returned" => order.state.status = "completed"
    /\ order.pc = "thrown" => order.state.status = "failed"
    /\ training.pc = "returned" => training.state.status = "completed"
    /\ training.pc = "thrown" => training.state.status = "failed"
    /\ analysis.pc = "returned" => analysis.state.status \in {"completed", "cancelled"}
    /\ analysis.pc = "thrown" => analysis.state.status = "failed"

C8_Witness ==
    /\ analysis.pc = "thrown"
    /\ analysis.error = ActivityFailure("notifyCompleted")
    /\ analysis.state.status = "failed"
    /\ analysis.state.filesAnalyzed = 2

(***************************************************************************)
(* Observations on the training checkpoints.                               *)
(***************************************************************************)
CheckpointEpochs == [j \in 1..Len(training.state.checkpoints) |-> training.state.checkpoints[j].epoch]

FreshTraining == training.pc # "idle" /\ ~training.resumeFromCheckpoint.defined

(***************************************************************************)
(* C11: at every point of a training execution the epoch indices in        *)
(* state.checkpoints, the resumed-from checkpoint at the head included,    *)
(* are strictly increasing.                                                *)
(***************************************************************************)
C11_CheckpointEpochsIncrease ==
    \A j \in 1..Len(CheckpointEpochs) :
        \A l \in 1..Len(CheckpointEpochs) :
            j < l => CheckpointEpochs[j] < CheckpointEpochs[l]

C11_Witness ==
    /\ training.resumeFromCheckpoint.defined
    /\ ResumeEpoch = 5
    /\ Len(CheckpointEpochs) >= 3
    /\ CheckpointEpochs[1] = 5
    /\ CheckpointEpochs[2] = 6

(***************************************************************************)
(* C12: in a fresh training execution the checkpoints recorded so far are  *)
(* exactly those of the epochs e already trained with e+1 a multiple of    *)
(* checkpointInterval, each recording e+1; so when trainEpoch fails at     *)
(* index f the recorded indices are checkpointInterval * 1 .. f \div       *)
(* checkpointInterval, the last being checkpointInterval * (f \div         *)
(* checkpointInterval), and there is none when f < checkpointInterval.     *)
(***************************************************************************)
C12_CheckpointEveryInterval ==
    FreshTraining =>
        LET interval == training.config.checkpointInterval
        IN  /\ \A j \in 1..Len(CheckpointEpochs) : CheckpointEpochs[j] = interval * j
            /\ training.pc = "trainEpoch" =>
                   Len(CheckpointEpochs) = training.epoch \div interval
            /\ training.error = ActivityFailure("trainEpoch") =>
                   /\ Len(CheckpointEpochs) = training.epoch \div interval
                   /\ training.epoch >= interval =>
                          CheckpointEpochs[Len(CheckpointEpochs)] =
                              interval * (training.epoch \div interval)

C12_Witness ==
    /\ FreshTraining
    /\ training.config.checkpointInterval = 3
    /\ training.error = ActivityFailure("trainEpoch")
    /\ training.epoch = 8
    /\ CheckpointEpochs = <<3, 6>>
    /\ training.pc = "thrown"

(***************************************************************************)
(* C13: two SeededRNG instances constructed independently from the same    *)
(* seed return identical values for the same sequence of next() and        *)
(* nextInt() calls.                                                        *)
(***************************************************************************)
SameCalls(a, b, p) == \A q \in 1..p : a[q][1] = b[q][1]

C13_SameSeedSameSequence ==
    (instances # NoInstances /\ instances[1].seed = instances[2].seed) =>
        \A p \in 1..Len(instances[1].out) :
            (p <= Len(instances[2].out) /\ SameCalls(instances[1].out, instances[2].out, p))
                => instances[1].out[p] = instances[2].out[p]

C13_Witness ==
    /\ instances # NoInstances
    /\ instances[1].seed = 42
    /\ instances[2].seed = 42
    /\ Len(instances[1].out) = MaxDraws
    /\ instances[2].out = instances[1].out
    /\ instances[1].out[1] = <<"nextInt", 944>>
    /\ instances[1].out[2][1] = "next"

(***************************************************************************)
(* The draw an uninterrupted run started from `seed` passes to trainEpoch  *)
(* for epoch i: one nextInt per loop iteration, so it is draw number i+1.  *)
(***************************************************************************)
RECURSIVE RngStateAfter(_, _)
RngStateAfter(st, n) == IF n = 0 THEN st ELSE RngStateAfter(RngNext(st), n - 1)

UninterruptedShuffleSeed(seed, i) ==
    RngInt(RngStateAfter(SeededRNG(seed), i + 1), 0, ShuffleSeedMax)

FreshDrawsAreSequential ==
    FreshTraining =>
        \A j \in 1..Len(TrainEpochCalls) :
            TrainEpochCalls[j].shuffleSeed =
                UninterruptedShuffleSeed(training.seed, TrainEpochCalls[j].epoch)

(***************************************************************************)
(* C14: for a fixed seed the shuffleSeed passed to trainEpoch for epoch i  *)
(* is the same in a run resumed from a checkpoint as in an uninterrupted   *)
(* run.                                                                    *)
(***************************************************************************)
C14_ResumedDrawsMatchUninterrupted ==
    training.resumeFromCheckpoint.defined =>
        \A j \in 1..Len(TrainEpochCalls) :
            TrainEpochCalls[j].shuffleSeed =
                UninterruptedShuffleSeed(training.seed, TrainEpochCalls[j].epoch)

(***************************************************************************)
(* The four approval gates: what a step that ends a wait may do.  Steps    *)
(* that cancel the execution are set aside.                                *)
(***************************************************************************)
OrderGateEnds ==
    /\ order.pc = "awaitApproval"
    /\ order'.pc # "awaitApproval"
    /\ ~order'.cancelRequested

OrderGateByDecision ==
    /\ order.approvalDecision.defined
    /\ order'.gate = (IF order.approvalDecision.approved THEN "approved" ELSE "rejected")
    /\ order.approvalDecision.approved =>
           /\ order'.state.approvedBy = order.approvalDecision.approvedBy
           /\ order'.state.rejectedReason = Undefined
    /\ ~order.approvalDecision.approved =>
           /\ order'.state.rejectedReason # Undefined
           /\ order'.error[1] = "Error: Order rejected"

OrderGateByTimeout ==
    /\ ~order.approvalDecision.defined
    /\ order.timer = ApprovalTimeoutHours
    /\ order'.gate = "timeout"
    /\ order'.state.rejectedReason = "Approval timeout"
    /\ order'.error = OrderRejectedError("Approval timeout")

ReviewGateEnds ==
    /\ training.pc = "awaitReview"
    /\ training'.pc # "awaitReview"
    /\ ~training'.cancelRequested

ReviewGateByDecision ==
    /\ training.researcherDecision.defined
    /\ training'.gate = training.researcherDecision.action
    /\ training'.pc = (IF training.researcherDecision.action = "stop"
                       THEN "evaluateModel" ELSE "sleep100ms")

ReviewGateByTimeout ==
    /\ ~training.researcherDecision.defined
    /\ training.timer = ReviewTimeoutHours
    /\ training'.gate = "timeout"
    /\ training'.pc = "sleep100ms"
    /\ training'.state.status = "training"

BudgetGateEnds ==
    /\ analysis.pc = "awaitBudgetApproval"
    /\ analysis'.pc # "awaitBudgetApproval"
    /\ ~analysis'.cancelRequested

BudgetGateByDecision ==
    /\ analysis.budgetApproval.defined
    /\ analysis'.gate = (IF analysis.budgetApproval.approved
                         THEN "budget-approved" ELSE "budget-rejected")
    /\ analysis.budgetApproval.approved =>
           /\ analysis'.state.currentStage # "budget-exceeded"
           /\ ~analysis'.budgetApproval.defined
    /\ ~analysis.budgetApproval.approved =>
           /\ analysis'.pc = "returned"
           /\ analysis'.state.status = "cancelled"

BudgetGateByTimeout ==
    /\ ~analysis.budgetApproval.defined
    /\ analysis.timer = BudgetTimeoutHours
    /\ analysis'.gate = "budget-timeout"
    /\ analysis'.pc = "returned"
    /\ analysis'.state.status = "cancelled"
    /\ analysis'.state.currentStage = "budget-exceeded"

PlanGateEnds ==
    /\ analysis.pc = "awaitPlanApproval"
    /\ analysis'.pc # "awaitPlanApproval"
    /\ ~analysis'.cancelRequested

PlanGateByDecision ==
    /\ analysis.planApproval.defined
    /\ analysis'.gate = (IF analysis.planApproval.approved
                         THEN "plan-approved" ELSE "plan-rejected")
    /\ ~analysis.planApproval.approved =>
           /\ analysis'.pc = "returned"
           /\ analysis'.state.status = "cancelled"

PlanGateByTimeout ==
    /\ ~analysis.planApproval.defined
    /\ analysis.timer = PlanTimeoutHours
    /\ analysis'.gate = "plan-timeout"
    /\ analysis'.pc = "returned"
    /\ analysis'.state.status = "cancelled"
    /\ analysis'.state.currentStage = "plan-rejected"

\* no hour of a gate's timer passes once its decision slot is set
NoWaitAfterDecision ==
    /\ (order.pc = "awaitApproval" /\ order.approvalDecision.defined)
           => order'.timer = order.timer \/ order'.pc # "awaitApproval"
    /\ (training.pc = "awaitReview" /\ training.researcherDecision.defined)
           => training'.timer = training.timer \/ training'.pc # "awaitReview"
    /\ (analysis.pc = "awaitBudgetApproval" /\ analysis.budgetApproval.defined)
           => analysis'.timer = analysis.timer \/ analysis'.pc # "awaitBudgetApproval"
    /\ (analysis.pc = "awaitPlanApproval" /\ analysis.planApproval.defined)
           => analysis'.timer = analysis.timer \/ analysis'.pc # "awaitPlanApproval"

(***************************************************************************)
(* C15: in each of the four approval gates, a wait whose decision slot is  *)
(* set ends with that decision and lets no further hour pass; a wait with  *)
(* no decision ends only when the gate's timer has run its full length     *)
(* (24h, 2h, 1h, 24h) and then applies the gate's default: reject the      *)
(* order, continue training, cancel the analysis.                          *)
(***************************************************************************)
C15_GateDecisionOrTimeout ==
    [][/\ OrderGateEnds => (OrderGateByDecision \/ OrderGateByTimeout)
       /\ ReviewGateEnds => (ReviewGateByDecision \/ ReviewGateByTimeout)
       /\ BudgetGateEnds => (BudgetGateByDecision \/ BudgetGateByTimeout)
       /\ PlanGateEnds => (PlanGateByDecision \/ PlanGateByTimeout)
       /\ NoWaitAfterDecision]_vars

C15_Witness ==
    /\ order.pc = "thrown"
    /\ order.gate = "timeout"
    /\ order.state.rejectedReason = "Approval timeout"
    /\ order.state.status = "failed"
    /\ order.approvalDecisionAt = "never"

(***************************************************************************)
(* C16: a failure of the notification issued before a gate suspends (the   *)
(* admin notification of the order, notifyUser for the budget overrun and  *)
(* for the plan approval) never makes the execution fail.                  *)
(***************************************************************************)
C16_GateNotificationNeverFatal ==
    /\ order.error # ActivityFailure("notifyAdmin")
    /\ analysis.error # ActivityFailure("notifyBudget")
    /\ analysis.error # ActivityFailure("notifyPlan")

C18_OneGatePerCrossing ==
    /\ analysis.budgetGates <= analysis.crossings
    /\ analysis.pc = "analyzeFile" => analysis.budgetGates = analysis.crossings

(***************************************************************************)
(* C19: after a budget approval that carries newBudget the budget gate is  *)
(* not invoked again until the cumulative cost exceeds newBudget.          *)
(***************************************************************************)
C19_NewBudgetReplacesCeiling ==
    analysis.state.status = "budget_exceeded" =>
        analysis.state.costSoFar > analysis.ceiling

(***************************************************************************)
(* C20: resolving the budget gate never lowers the remaining budget: an    *)
(* approved newBudget below the current ceiling does not lower it.         *)
(***************************************************************************)
C20_BudgetNeverLowered ==
    [][(analysis.state.status = "budget_exceeded"
          /\ analysis'.state.status # "budget_exceeded")
         => analysis'.state.budgetRemaining >= analysis.state.budgetRemaining]_vars

(***************************************************************************)
(* C21: once the budget gate has been resolved by a rejection or by its    *)
(* timeout, the execution has returned with status 'cancelled' and stage   *)
(* 'budget-exceeded', and the notification of the overrun is the last      *)
(* activity it ever called.                                                *)
(***************************************************************************)
C21_BudgetDenialCancels ==
    analysis.gate \in {"budget-rejected", "budget-timeout"} =>
        /\ analysis.pc = "returned"
        /\ analysis.state.status = "cancelled"
        /\ analysis.state.currentStage = "budget-exceeded"
        /\ analysis.calls[Len(analysis.calls)] =
               AnalysisCall("notifyUser", analysis.state.filesAnalyzed - 1)

C21_Witness ==
    /\ analysis.gate = "budget-timeout"
    /\ analysis.pc = "returned"
    /\ analysis.state.filesAnalyzed < analysis.state.totalFiles
    /\ analysis.task.targetImprovement

(***************************************************************************)
(* C22: every step that adds to costSoFar is followed at once by the       *)
(* ceiling check: a step that raises the cost above the task's budget      *)
(* leaves the execution in 'budget_exceeded' (steps of a cancelled         *)
(* execution set aside).                                                   *)
(***************************************************************************)
C22_CheckAfterEveryCost ==
    [][(/\ analysis'.state.costSoFar > analysis.state.costSoFar
        /\ analysis'.state.costSoFar > TaskBudget(analysis.task)
        /\ ~analysis.cancelRequested)
         => analysis'.state.status = "budget_exceeded"]_vars

(***************************************************************************)
(* Observations on an analysis execution.                                  *)
(***************************************************************************)
AnalyzeFileCalls == SelectSeq(analysis.calls, LAMBDA c : c.name = "analyzeFile")

(***************************************************************************)
(* C23: in scenario D (20 files, budget 5, cost 0.5 per file; files are    *)
(* numbered from 0) the budget gate is invoked for the first time after    *)
(* file 10, with status 'budget_exceeded'; once that gate is approved with *)
(* newBudget 10 the next analyzeFile call is for file 11, and no file is   *)
(* ever analysed twice.                                                    *)
(***************************************************************************)
C23_ScenarioD ==
    /\ analysis.budgetGates >= 1 <=> analysis.state.filesAnalyzed >= 11
    /\ (analysis.budgetGates = 1 /\ analysis.pc \in {"notifyBudget", "awaitBudgetApproval"})
           => /\ analysis.i = 10
              /\ analysis.state.status = "budget_exceeded"
    /\ (analysis.budgetGates = 1 /\ analysis.gate = "budget-approved"
            /\ analysis.pc = "analyzeFile")
           => analysis.calls[Len(analysis.calls)] = AnalysisCall("analyzeFile", 11)
    /\ \A j \in 1..Len(AnalyzeFileCalls) : AnalyzeFileCalls[j].index = j - 1

C23_Witness ==
    /\ analysis.task = ScenarioDTask
    /\ analysis.budgetGates = 1
    /\ analysis.gate = "budget-approved"
    /\ analysis.ceiling = 10000
    /\ analysis.pc = "analyzeFile"
    /\ analysis.i = 11
    /\ analysis.state.costSoFar = 5500

(***************************************************************************)
(* C24: the parent concludes (returns or fails) only when both phase-1     *)
(* children have finished by themselves, and no child is ever ended from   *)
(* outside because its sibling failed.                                     *)
(***************************************************************************)
C24_ParentWaitsForBothChildren ==
    /\ multi.pc \in MultiTerminal =>
           \A c \in Phase1Children : multi.children[c].pc \in AnalysisTerminal
    /\ \A c \in Phase1Children : multi.children[c].pc # "terminated"

(***************************************************************************)
(* C25: the performance child is started only once the parent holds the    *)
(* architecture child's result and that result has a 'performance-issue';  *)
(* otherwise it is never started and a returning parent reports null for   *)
(* it.                                                                     *)
(***************************************************************************)
C25_PerformanceOnlyAfterArchitecture ==
    /\ multi.children["performance"].pc # "notStarted" =>
           /\ multi.children["architecture"].pc = "returned"
           /\ multi.issues["architecture"]
           /\ multi.pc # "awaitBoth"
    /\ (multi.pc = "returned" /\ ~multi.issues["architecture"]) =>
           /\ multi.children["performance"].pc = "notStarted"
           /\ multi.performance = "null"
    /\ (multi.pc = "returned" /\ multi.issues["architecture"]) =>
           /\ multi.children["performance"].pc = "returned"
           /\ multi.performance = "result"

C25_Witness ==
    /\ multi.pc = "awaitPerformance"
    /\ multi.children["performance"].pc = "analyzeFile"
    /\ multi.children["architecture"].pc = "returned"
    /\ multi.children["security"].pc = "returned"
    /\ multi.issues["architecture"]
    /\ ~multi.issues["security"]

(***************************************************************************)
(* Observations on a training execution.                                   *)
(***************************************************************************)
CleanupCalls == SelectSeq(training.calls, LAMBDA c : c.name = "cleanupTraining")

TrainingFailures ==
    {ActivityFailure(a) : a \in {"initializeTraining", "trainEpoch", "saveCheckpoint",
                                  "evaluateModel"}}
        \cup {TrainingError, CancelledFailure}

\* where a training execution stands once it has caught an error, and when it ends
CleanupDiscipline ==
    /\ (training.error # NoError) =>
          (/\ training.pc \in {"cleanupTraining", "thrown"}
           /\ training.error \in TrainingFailures
           /\ training.state.status = "failed"
           /\ Len(CleanupCalls) = 1
           /\ training.calls[Len(training.calls)].name = "cleanupTraining")
    /\ (training.pc = "thrown") =>
          (/\ training.error # NoError
           /\ training.thrown = training.error)
    /\ (training.pc = "returned") =>
          (/\ training.error = NoError
           /\ Len(CleanupCalls) = 0)

(***************************************************************************)
(* C27: once an activity of the try block has failed or the run has been   *)
(* stopped by cancelTraining, the status is 'failed' and cleanupTraining   *)
(* is called exactly once, as the last call; the execution then throws the *)
(* error it caught, also when the cleanup failed (which is only logged);   *)
(* the failing step and every later step leave the checkpoints as they     *)
(* are.  An execution that returns has caught no error and called no       *)
(* cleanup.                                                                *)
(***************************************************************************)
C27_CleanupOnceThenRethrow ==
    /\ []CleanupDiscipline
    /\ [][(training.error # NoError
              \/ training'.error \in TrainingFailures \ {CancelledFailure})
             => training'.state.checkpoints = training.state.checkpoints]_vars

C27_Witness ==
    /\ training.pc = "thrown"
    /\ training.thrown = TrainingError
    /\ training.errlog # <<>>
    /\ Len(training.state.checkpoints) >= 1
    /\ training.state.status = "failed"

(***************************************************************************)
(* C28: once a review gate has been resolved by a 'stop' decision, the     *)
(* loop is left: the last trainEpoch call is the one of the gate's epoch,  *)
(* the next call is evaluateModel (unless the execution was cancelled),    *)
(* the execution is evaluating, has returned with status 'completed', or   *)
(* is failing because evaluateModel failed or the execution was cancelled. *)
(***************************************************************************)
C28_StopGoesToEvaluation ==
    training.gate = "stop" =>
        /\ training.pc \in {"evaluateModel", "returned", "cleanupTraining", "thrown"}
        /\ (training.epoch + 1) % ReviewInterval = 0
        /\ TrainEpochCalls[Len(TrainEpochCalls)].epoch = training.epoch
        /\ \A j \in 1..Len(training.calls) :
               training.calls[j].name \in {"trainEpoch", "saveCheckpoint"}
                   => training.calls[j].epoch <= training.epoch + 1
        /\ training.pc = "evaluateModel" => training.state.status = "evaluating"
        /\ training.pc = "returned" =>
               /\ training.state.status = "completed"
               /\ training.calls[Len(training.calls)].name = "evaluateModel"
        /\ training.pc \in {"cleanupTraining", "thrown"} =>
               training.error \in {ActivityFailure("evaluateModel"), CancelledFailure}

C28_Witness ==
    /\ training.gate = "stop"
    /\ training.pc = "returned"
    /\ training.state.status = "completed"
    /\ training.epoch = ReviewInterval - 1
    /\ training.state.totalEpochs = MaxEpochs
    /\ training.result.totalEpochs = ReviewInterval

(***************************************************************************)
(* Observations on an adaptive execution.                                  *)
(***************************************************************************)
AdaptiveUnits == SelectSeq(adaptive.calls, LAMBDA c : c.name = "analyzeFile")

\* at most maxDepth units, one per depth; 'complete' ends the execution at once
BoundedUnits ==
    /\ Len(AdaptiveUnits) <= adaptive.task.maxDepth
    /\ \A j \in 1..Len(AdaptiveUnits) : AdaptiveUnits[j].depth = j
    /\ (adaptive.quality.recommendation = "complete") =>
          (/\ adaptive.pc = "returned"
           /\ adaptive.calls[Len(adaptive.calls)] =
                  AdaptiveCall("analyzeQuality", Len(AdaptiveUnits), Undefined, Undefined)
           /\ Len(adaptive.result.results) = Len(AdaptiveUnits))

(***************************************************************************)
(* C29: an adaptive execution calls analyzeFile at most maxDepth times,    *)
(* returns right after the first analyzeQuality result that recommends     *)
(* 'complete' without any further call, and, its activities and timers     *)
(* completing, always ends (returns, or throws the error of a failed       *)
(* activity or of a cancellation).                                         *)
(***************************************************************************)
C29_AdaptiveBoundedAndTerminates ==
    /\ []BoundedUnits
    /\ <>(adaptive.pc \in AdaptiveTerminal)

C29_Witness ==
    /\ adaptive.pc = "returned"
    /\ adaptive.task.maxDepth = MaxDepth
    /\ adaptive.quality.recommendation = "complete"
    /\ Len(AdaptiveUnits) = 2
    /\ adaptive.strategy = "depth-first"

(***************************************************************************)
(* Observations on the payment gateway.                                    *)
(***************************************************************************)
ChargesFor(o) ==
    Cardinality({i \in 1..Len(gateway.payments) :
                    gateway.payments[i].charged /\ gateway.payments[i].order = o
                        /\ gateway.payments[i].status = "success"})

(***************************************************************************)
(* C30: processPayment is idempotent per order: a payment it returns for   *)
(* an order is a payment charged for that order, and a call made after an  *)
(* order was paid returns that payment instead of charging again.          *)
(***************************************************************************)
C30_PaymentIdempotentPerOrder ==
    /\ \A j \in 1..Len(gateway.log) :
           gateway.log[j].paymentId # 0 =>
               gateway.payments[gateway.log[j].paymentId].order = gateway.log[j].orderId
    /\ \A o \in OrderIds : ChargesFor(o) <= 1

(***************************************************************************)
(* C31: every strategy-switch event published by an adaptive execution     *)
(* carries as oldStrategy the strategy in effect before the switch and as  *)
(* newStrategy the strategy adopted.                                       *)
(***************************************************************************)
C31_SwitchEventRecordsTransition ==
    [][(adaptive'.pc = "publishProgress" /\ adaptive.pc = "analyzeQuality")
          => LET event == adaptive'.calls[Len(adaptive'.calls)]
             IN  /\ event.oldStrategy = adaptive.strategy
                 /\ event.newStrategy = adaptive'.strategy]_vars

(***************************************************************************)
(* C32: when a refactor plan with at least one batch has been generated    *)
(* for a task that does not require approval, the execution goes on to     *)
(* refactor the first batch without waiting on the plan-approval gate.     *)
(***************************************************************************)
C32_UnapprovedPlanIsExecuted ==
    [][(/\ analysis.pc = "generateRefactorPlan"
        /\ ~analysis.hasPlan
        /\ analysis'.hasPlan
        /\ analysis'.batches > 0
        /\ ~analysis.task.requiresApproval
        /\ ~analysis.cancelRequested)
          => analysis'.pc = "refactorBatch"]_vars

(***************************************************************************)
(* Observations on the refactoring stage of an analysis execution.         *)
(***************************************************************************)
CallsOf(name) == SelectSeq(analysis.calls, LAMBDA c : c.name = name)

CheckedSteps == {"processPayment", "notifyAdmin", "createShipment"}

\* a check that found the flag set has thrown, and the rollback follows
CancelCheckCompensates ==
    order.error = OrderCancelledError =>
        /\ order.isCancelled
        /\ order.isCancelledAt \notin AfterLastCheck
        /\ order.state.status \in {"compensating", "failed"}
        /\ IsPrefix(Compensations, ExpectedCompensations(Len(order.succeeded)))
        /\ (order.pc = "thrown" =>
               (/\ order.state.status = "failed"
                /\ order.thrown = OrderCancelledError
                /\ Compensations = ExpectedCompensations(Len(order.succeeded))))

(***************************************************************************)
(* C34: a cancelOrder signal received before the check that precedes a     *)
(* forward step (payment, approval, shipment) keeps that step from being   *)
(* started: the check throws, the completed steps are compensated and the  *)
(* execution ends 'failed'.  A cancelOrder received while the approval     *)
(* gate is waiting leaves the wait and its timer as they are; when the     *)
(* wait is over the execution fails in that same activation.               *)
(***************************************************************************)
C34_CancelCheckedBeforeEachStep ==
    /\ []CancelCheckCompensates
    /\ [][(order.isCancelled /\ order'.pc # order.pc)
             => (/\ order'.pc \notin CheckedSteps
                 /\ (order'.pc = "awaitApproval" => order.pc = "notifyAdmin"))]_vars
    /\ [][(order.pc = "awaitApproval" /\ ~order.isCancelled /\ order'.isCancelled)
             => (order'.pc = "awaitApproval" /\ order'.timer = order.timer)]_vars
    /\ [][(order.pc = "awaitApproval" /\ order.isCancelled /\ order'.pc # "awaitApproval")
             => order'.error # NoError]_vars

C34_Witness ==
    /\ order.pc = "thrown"
    /\ order.error = OrderCancelledError
    /\ order.isCancelledAt = "awaitApproval"
    /\ order.gate = "approved"
    /\ ~order.cancelRequested
    /\ Compensations = <<"refundPayment", "releaseInventory">>

(***************************************************************************)
(* Observations on the activation in which a gate is reached.              *)
(***************************************************************************)
OrderGateReached ==
    /\ order.pc = "notifyAdmin"
    /\ order'.pc # "notifyAdmin"
    /\ ~order.cancelRequested

ReviewGateReached ==
    /\ training.pc \in {"trainEpoch", "saveCheckpoint"}
    /\ training'.pc \notin {"trainEpoch", "saveCheckpoint"}
    /\ (training.epoch + 1) % ReviewInterval = 0
    /\ training'.error = NoError
    /\ ~training.cancelRequested

BudgetGateReached ==
    /\ analysis.pc = "notifyBudget"
    /\ analysis'.pc # "notifyBudget"
    /\ analysis'.error = NoError
    /\ ~analysis.cancelRequested

PlanGateReached ==
    /\ analysis.pc = "notifyPlan"
    /\ analysis'.pc # "notifyPlan"
    /\ analysis'.error = NoError
    /\ ~analysis.cancelRequested

\* a slot changes only when a signal sets it or when the gate that used it
\* clears it
SlotsRetained ==
    /\ (order.pc # "idle" /\ order'.approvalDecision # order.approvalDecision) =>
           (order'.approvalDecision.defined /\ order'.pc = order.pc)
    /\ (training.pc # "idle"
          /\ training'.researcherDecision # training.researcherDecision) =>
           \/ training'.researcherDecision.defined /\ training'.pc = training.pc
           \/ /\ training.researcherDecision.defined
              /\ training'.gate = training.researcherDecision.action
              /\ training'.pc = "sleep100ms"
    /\ (analysis.pc # "idle" /\ analysis'.budgetApproval # analysis.budgetApproval) =>
           \/ analysis'.budgetApproval.defined /\ analysis'.pc = analysis.pc
           \/ /\ analysis.budgetApproval.defined
              /\ analysis.budgetApproval.approved
              /\ analysis'.gate = "budget-approved"
    /\ (analysis.pc # "idle" /\ analysis'.planApproval # analysis.planApproval) =>
           (analysis'.planApproval.defined /\ analysis'.pc = analysis.pc)

(***************************************************************************)
(* C35: a decision signal delivered before its gate starts waiting stays   *)
(* in the slot (a later signal replaces it) until the gate is reached, and *)
(* a gate reached with its slot set resolves in that same activation with  *)
(* the decision in the slot, without suspending.                           *)
(***************************************************************************)
C35_EarlyDecisionResolvesGateAtOnce ==
    [][/\ SlotsRetained
       /\ (OrderGateReached /\ order.approvalDecision.defined)
              => (order'.pc # "awaitApproval" /\ OrderGateByDecision)
       /\ (ReviewGateReached /\ training.researcherDecision.defined)
              => (training'.pc # "awaitReview" /\ ReviewGateByDecision)
       /\ (BudgetGateReached /\ analysis.budgetApproval.defined)
              => (analysis'.pc # "awaitBudgetApproval" /\ BudgetGateByDecision)
       /\ (PlanGateReached /\ analysis.planApproval.defined)
              => (analysis'.pc # "awaitPlanApproval" /\ PlanGateByDecision)]_vars

C35_Witness ==
    /\ order.pc = "returned"
    /\ order.gate = "approved"
    /\ order.approvalDecisionAt = "reserveInventory"
    /\ order.state.approvedBy = "admin"
    /\ order.timer = 0

(***************************************************************************)
(* Observations on the rollbacks of an analysis execution.                 *)
(***************************************************************************)
RollbacksOf(b) ==
    Len(SelectSeq(analysis.calls, LAMBDA c : c.name = "rollbackBatch" /\ c.index = b))

AtMostOneRollbackPerBatch == \A b \in 0..MaxFiles : RollbacksOf(b) <= 1

(***************************************************************************)
(* C36: rollbackBatch is called for a batch only when the refactor step or *)
(* the test step of that batch has just failed (the activity failed, or    *)
(* the tests did not pass), and at most once for each batch.               *)
(***************************************************************************)
C36_RollbackOncePerFailedBatch ==
    /\ []AtMostOneRollbackPerBatch
    /\ [][Len(CallsOf("rollbackBatch"))' > Len(CallsOf("rollbackBatch"))
             => (/\ analysis.pc \in {"refactorBatch", "runTests"}
                 /\ analysis'.calls[Len(analysis'.calls)] =
                        AnalysisCall("rollbackBatch", analysis.batch))]_vars

(***************************************************************************)
(* C37: the depth in the result of an adaptive execution is the number of  *)
(* units of work performed, that is the length of the returned results,    *)
(* however the loop ended.                                                 *)
(***************************************************************************)
C37_DepthCountsUnits ==
    adaptive.pc = "returned" =>
        /\ adaptive.result.depth = Len(adaptive.result.results)
        /\ adaptive.result.depth = Len(AdaptiveUnits)

(***************************************************************************)
(* C38: totalEpochs in the result of a training execution is the number of *)
(* epochs completed so far: the index of the last epoch trained plus one,  *)
(* and, when the loop trained no epoch, the epoch of the checkpoint the    *)
(* run resumed from (0 for a fresh run).                                   *)
(***************************************************************************)
C38_TotalEpochsCountsCompleted ==
    training.pc = "returned" =>
        training.result.totalEpochs =
            (IF TrainEpochCalls # <<>>
             THEN TrainEpochCalls[Len(TrainEpochCalls)].epoch + 1
             ELSE IF training.resumeFromCheckpoint.defined THEN ResumeEpoch ELSE 0)

(***************************************************************************)
(* Observations on the inventory.                                          *)
(***************************************************************************)
NonNegativeStock == \A p \in Products : inventory.inventoryDB[p] >= 0

(***************************************************************************)
(* C39: after any sequence of reserveInventory and releaseInventory calls  *)
(* the available stock of every product is non-negative, and a             *)
(* reserveInventory call that fails with InventoryError leaves every stock *)
(* level as it was.                                                        *)
(***************************************************************************)
C39_StockNeverNegative ==
    /\ []NonNegativeStock
    /\ [][(inventory'.calls # inventory.calls /\ inventory'.outcome = "InventoryError")
             => inventory'.inventoryDB = inventory.inventoryDB]_vars

(***************************************************************************)
(* Observations on an undisturbed training execution.                      *)
(***************************************************************************)
StartEpoch == IF training.resumeFromCheckpoint.defined THEN ResumeEpoch ELSE 0

\* trainEpoch was called for start, start + 1, ..., once each; a finished run
\* has covered every index below totalEpochs
EpochsInOrder ==
    /\ \A i \in 1..Len(TrainEpochCalls) : TrainEpochCalls[i].epoch = StartEpoch + i - 1
    /\ training.pc = "returned" =>
           /\ training.state.status = "completed"
           /\ Len(TrainEpochCalls) =
                  (IF training.state.totalEpochs > StartEpoch
                   THEN training.state.totalEpochs - StartEpoch ELSE 0)

\* every tenth epoch is followed by a wait on the review gate
ReviewGateEntered == ReviewGateReached => training'.pc = "awaitReview"

(***************************************************************************)
(* C40: a training execution whose activities all succeed and that gets no *)
(* signal eventually returns with status 'completed'; every review gate    *)
(* (after each 10th epoch) is waited on for its full 2 hours and then lets *)
(* training continue, and trainEpoch is called once for each index from    *)
(* the start epoch up to totalEpochs - 1, in increasing order.             *)
(***************************************************************************)
C40_UndisturbedTrainingCompletes ==
    /\ []EpochsInOrder
    /\ [][/\ ReviewGateEntered
          /\ ReviewGateEnds => ReviewGateByTimeout]_vars
    /\ <>(training.pc = "returned" /\ training.state.status = "completed")

C40_Witness ==
    /\ training.pc = "returned"
    /\ training.state.status = "completed"
    /\ ~training.resumeFromCheckpoint.defined
    /\ training.config.epochs = MaxEpochs
    /\ Len(TrainEpochCalls) = MaxEpochs
    /\ training.gate = "timeout"

====
